---- MODULE Spec2Model ----
(***************************************************************************)
(* Model of the Leave Delaware news aggregator: the daily pipeline of      *)
(* main.py (collect, filter, summarize, format, deliver), the keyword      *)
(* filter and entry processing of content_processor.py, the digest         *)
(* formatter and the daily scheduler loop of scheduler.py.                 *)
(*                                                                         *)
(* Python str values are modelled as sequences of one-character strings,   *)
(* so that lower(), slicing, substring tests and comparisons are computed   *)
(* the way the code computes them.                                         *)
(***************************************************************************)
EXTENDS Integers, Sequences, FiniteSets, TLC

(***************************************************************************)
(* Text primitives (Python str operations used by the code).               *)
(***************************************************************************)
\* Printable ASCII, code points 32..126, in code-point order (code point 96 is
\* spelled out: the character cannot be written in a string of this language).
Ascii ==
    <<" ","!","\"","#","$","%","&","'","(",")","*","+",",","-",".","/","0","1","2","3","4","5","6","7","8","9",":",";","<","=",">","?","@","A","B","C","D","E","F","G","H","I","J","K","L","M","N","O","P","Q","R","S","T","U","V","W","X","Y","Z","[","\\","]","^","_","(backquote)","a","b","c","d","e","f","g","h","i","j","k","l","m","n","o","p","q","r","s","t","u","v","w","x","y","z","{","|","}","~">>

\* ord(c) for a printable ASCII character.
OrdMap == [c \in {Ascii[i] : i \in 1..Len(Ascii)} |-> 31 + (CHOOSE i \in 1..Len(Ascii) : Ascii[i] = c)]

Ord(c) == OrdMap[c]

\* str.lower() on one character: 'A'..'Z' (65..90) map to 'a'..'z'.
LowerMap == [c \in {Ascii[i] : i \in 34..59} |-> Ascii[OrdMap[c] + 32 - 31]]

LowerChar(c) == IF c \in DOMAIN LowerMap THEN LowerMap[c] ELSE c

\* str.lower()
Lower(s) == [i \in 1..Len(s) |-> LowerChar(s[i])]

Min(a, b) == IF a <= b THEN a ELSE b

\* s[:n]
Take(s, n) == SubSeq(s, 1, Min(n, Len(s)))

\* s[n:]
Drop(s, n) == SubSeq(s, Min(n, Len(s)) + 1, Len(s))

\* s.startswith(p)
StartsWith(s, p) == Len(p) <= Len(s) /\ SubSeq(s, 1, Len(p)) = p

\* s.endswith(p)
EndsWith(s, p) == Len(p) <= Len(s) /\ SubSeq(s, Len(s) - Len(p) + 1, Len(s)) = p

\* sub in s
Contains(s, sub) ==
    \E i \in 0..(Len(s) - Len(sub)) : SubSeq(s, i + 1, i + Len(sub)) = sub

\* s.find(sub) + 1: the 1-based index of the first occurrence, 0 when absent.
Find(s, sub) ==
    IF Contains(s, sub)
    THEN CHOOSE i \in 1..(Len(s) - Len(sub) + 1) :
            /\ SubSeq(s, i, i + Len(sub) - 1) = sub
            /\ \A j \in 1..(i - 1) : SubSeq(s, j, j + Len(sub) - 1) # sub
    ELSE 0

\* The 1-based index of the first character of s that is in the set cs, 0 when none.
FindAny(s, cs) ==
    IF \E i \in 1..Len(s) : s[i] \in cs
    THEN CHOOSE i \in 1..Len(s) : s[i] \in cs /\ \A j \in 1..(i - 1) : s[j] \notin cs
    ELSE 0

Whitespace == {" ", "\t", "\n", "\r"}

RECURSIVE LStrip(_, _)
\* s.lstrip(chars)
LStrip(s, cs) == IF s # <<>> /\ Head(s) \in cs THEN LStrip(Tail(s), cs) ELSE s

RECURSIVE RStrip(_, _)
\* s.rstrip(chars)
RStrip(s, cs) ==
    IF s # <<>> /\ s[Len(s)] \in cs THEN RStrip(SubSeq(s, 1, Len(s) - 1), cs) ELSE s

\* s.strip()
Strip(s) == RStrip(LStrip(s, Whitespace), Whitespace)

RECURSIVE Replace(_, _, _)
\* k is Find(s, old): the text before the first occurrence, new, and the rest replaced.
ReplaceAt(s, old, new, k) ==
    IF k = 0 THEN s
    ELSE Take(s, k - 1) \o new \o Replace(Drop(s, k + Len(old) - 1), old, new)

\* s.replace(old, new), old non-empty: every non-overlapping occurrence, left to right.
Replace(s, old, new) == ReplaceAt(s, old, new, Find(s, old))

RECURSIVE StrLess(_, _)
\* a < b on Python str: lexicographic by code point, a proper prefix is smaller.
StrLess(a, b) ==
    IF b = <<>> THEN FALSE
    ELSE IF a = <<>> THEN TRUE
    ELSE IF Head(a) = Head(b) THEN StrLess(Tail(a), Tail(b))
    ELSE Ord(Head(a)) < Ord(Head(b))

\* dict.get(k, d)
Get(e, k, d) == IF k \in DOMAIN e THEN e[k] ELSE d

(***************************************************************************)
(* ContentProcessor.__init__: the configured keywords.                     *)
(***************************************************************************)
kw_1 ==
    <<"L","e","a","v","e"," ","D","e","l","a","w","a","r","e">>
kw_2 ==
    <<"D","e","l","a","w","a","r","e"," ","T","a","x","e","s">>
kw_3 ==
    <<"D","e","l","a","w","a","r","e"," ","C","o","u","r","t"," ","o","f"," ","C","h","a","n","c","e","r","y">>
kw_4 ==
    <<"C","o","m","p","a","n","i","e","s"," ","r","e","i","n","c","o","r","p","o","r","a","t","i","n","g"," ","i","n"," ","T","e","x","a","s">>
kw_5 ==
    <<"C","o","m","p","a","n","i","e","s"," ","r","e","i","n","c","o","r","p","o","r","a","t","i","n","g"," ","i","n"," ","N","e","v","a","d","a">>
kw_6 ==
    <<"D","e","l","a","w","a","r","e"," ","i","n","c","o","r","p","o","r","a","t","i","o","n">>
kw_7 ==
    <<"C","o","r","p","o","r","a","t","e"," ","l","a","w"," ","n","e","w","s">>
kw_8 ==
    <<"R","e","l","o","c","a","t","e","F","r","o","m","D","e","l","a","w","a","r","e">>
kw_9 ==
    <<"L","e","a","v","e","D","e","l","a","w","a","r","e">>
kw_10 ==
    <<"c","o","r","p","o","r","a","t","e"," ","r","e","l","o","c","a","t","i","o","n">>

keywords == <<kw_1, kw_2, kw_3, kw_4, kw_5, kw_6, kw_7, kw_8, kw_9, kw_10>>

\* any(keyword.lower() in text for keyword in self.keywords), text already lower-cased
keywords_lower == [k \in 1..Len(keywords) |-> Lower(keywords[k])]

HasKeyword(text) == \E k \in 1..Len(keywords) : Contains(text, keywords_lower[k])

(***************************************************************************)
(* String literals of the code.                                            *)
(***************************************************************************)
s_google_com == <<"g","o","o","g","l","e",".","c","o","m">>
s_url_path == <<"/","u","r","l">>
s_https_prefix == <<"h","t","t","p","s",":","/","/">>
s_twitter == <<"t","w","i","t","t","e","r">>
s_x_post == <<"x"," ","p","o","s","t">>
s_linkedin == <<"l","i","n","k","e","d","i","n">>
s_rss == <<"r","s","s">>
s_at_leavedelaware == <<"@","l","e","a","v","e","d","e","l","a","w","a","r","e">>
s_http == <<"h","t","t","p">>
s_ellipsis == <<".",".",".">>
s_default_title == <<"D","e","l","a","w","a","r","e"," ","B","u","s","i","n","e","s","s"," ","N","e","w","s">>
tag_X_Post == <<"X"," ","P","o","s","t">>
tag_LinkedIn == <<"L","i","n","k","e","d","I","n">>
tag_Article == <<"A","r","t","i","c","l","e">>
ent_amp == <<"&","a","m","p",";">>
ent_lt == <<"&","l","t",";">>
ent_gt == <<"&","g","t",";">>
ent_quot == <<"&","q","u","o","t",";">>
ent_39 == <<"&","#","3","9",";">>
ent_nbsp == <<"&","n","b","s","p",";">>
s_q == <<"q">>
s_url == <<"u","r","l">>

\* Python None where a str is expected.
NoneVal == <<"(None)">>

\* A value that is not a str: the JSON list ['Leave Delaware'] that the Twitter JSON
\* path passes through as title and description when a row's "text" is a list.
NonStr == <<"(list)">>

\* f"{v}": str(v). The repr of the list above is ['Leave Delaware'].
Format(v) ==
    IF v = NonStr THEN <<"[", "'">> \o kw_1 \o <<"'", "]">>
    ELSE IF v = NoneVal THEN <<"N", "o", "n", "e">>
    ELSE v

(***************************************************************************)
(* ContentProcessor._clean_html_tags                                       *)
(***************************************************************************)
\* <[^>]+> matches at i: a '<', one or more characters other than '>', a '>'.
IsTagAt(s, i) == s[i] = "<" /\ FindAny(Drop(s, i), {">"}) >= 2

\* The 1-based index of the first tag of s, 0 when it has none.
FirstTag(s) ==
    IF \E i \in 1..Len(s) : IsTagAt(s, i)
    THEN CHOOSE i \in 1..Len(s) : IsTagAt(s, i) /\ \A j \in 1..(i - 1) : ~IsTagAt(s, j)
    ELSE 0

RECURSIVE StripTags(_)
\* i is FirstTag(s): the text before the tag and the text after it stripped.
StripTagsAt(s, i) ==
    IF i = 0 THEN s
    ELSE Take(s, i - 1) \o StripTags(Drop(s, i + FindAny(Drop(s, i), {">"})))

\* re.sub(r'<[^>]+>', '', text)
StripTags(s) == StripTagsAt(s, FirstTag(s))

RECURSIVE CollapseWhitespace(_)
\* ' '.join(s.split())
CollapseWhitespace(s) ==
    LET t == LStrip(s, Whitespace)
        k == FindAny(t, Whitespace)
    IN IF t = <<>> THEN <<>>
       ELSE IF k = 0 THEN t
       ELSE LET rest == CollapseWhitespace(Drop(t, k))
            IN IF rest = <<>> THEN Take(t, k - 1) ELSE Take(t, k - 1) \o <<" ">> \o rest

\* text is a str here; re.sub raises TypeError on anything else (see CleanRaises).
_clean_html_tags(text) ==
    IF text = <<>> THEN text
    ELSE LET t0 == StripTags(text)
             t1 == Replace(t0, ent_amp, <<"&">>)
             t2 == Replace(t1, ent_lt, <<"<">>)
             t3 == Replace(t2, ent_gt, <<">">>)
             t4 == Replace(t3, ent_quot, <<"\"">>)
             t5 == Replace(t4, ent_39, <<"'">>)
             t6 == Replace(t5, ent_nbsp, <<" ">>)
         IN CollapseWhitespace(t6)

\* _clean_html_tags(v) raises for a truthy value that is not a str.
CleanRaises(v) == v = NonStr

(***************************************************************************)
(* urllib.parse as used by ContentProcessor._normalize_generic_url         *)
(***************************************************************************)
IsAlpha(c) == c \in {Ascii[i] : i \in (34..59) \cup (66..91)}

IsDigit(c) == c \in {Ascii[i] : i \in 17..26}

SchemeChars == {Ascii[i] : i \in (34..59) \cup (66..91) \cup (17..26)} \cup {"+", "-", "."}

\* The part of s before the first occurrence of c (all of s when there is none), and
\* the part after it (empty when there is none): s.split(c, 1).
CutAt(s, k) == IF k = 0 THEN s ELSE Take(s, k - 1)

AfterAt(s, k) == IF k = 0 THEN <<>> ELSE Drop(s, k)

Before(s, c) == CutAt(s, Find(s, c))

After(s, c) == AfterAt(s, Find(s, c))

\* urlsplit, the scheme: the text before the first ':' when it starts with a letter and
\* holds only scheme characters; i is the position of that ':'.
SplitSchemeAt(url, i) ==
    IF i > 1 /\ IsAlpha(url[1]) /\ \A j \in 1..(i - 1) : url[j] \in SchemeChars
    THEN [scheme |-> Lower(Take(url, i - 1)), rest |-> Drop(url, i)]
    ELSE [scheme |-> <<>>, rest |-> url]

\* urlsplit, the netloc: after a leading '//' up to the first of '/', '?', '#'; d is
\* the position of that delimiter in rest[2:].
SplitNetlocAt(rest, d) ==
    IF Take(rest, 2) # <<"/", "/">> THEN [netloc |-> <<>>, rest |-> rest]
    ELSE IF d = 0 THEN [netloc |-> Drop(rest, 2), rest |-> <<>>]
    ELSE [netloc |-> SubSeq(rest, 3, d + 1), rest |-> Drop(rest, d + 1)]

UrlParts(scheme, netloc, rest) ==
    [scheme |-> scheme, netloc |-> netloc,
     path   |-> Before(rest, <<"?">>),
     query  |-> After(rest, <<"?">>)]

UrlAfterNetloc(scheme, n) == UrlParts(scheme, n.netloc, Before(n.rest, <<"#">>))

UrlAfterScheme(s) ==
    UrlAfterNetloc(s.scheme, SplitNetlocAt(s.rest, FindAny(Drop(s.rest, 2), {"/", "?", "#"})))

\* urlparse(url): scheme, netloc, path, query (params and fragment are not used).
urlparse(url) == UrlAfterScheme(SplitSchemeAt(url, Find(url, <<":">>)))

\* urlsplit raises ValueError("Invalid IPv6 URL") when the netloc has one of '[' and
\* ']' without the other.
BracketsUnbalanced(netloc) == Contains(netloc, <<"[">>) # Contains(netloc, <<"]">>)

UrlparseRaises(url) == BracketsUnbalanced(urlparse(url).netloc)

HexDigits == <<"0", "1", "2", "3", "4", "5", "6", "7", "8", "9", "a", "b", "c", "d", "e", "f">>

IsHex(c) == \E i \in 1..16 : HexDigits[i] = LowerChar(c)

HexVal(c) == (CHOOSE i \in 1..16 : HexDigits[i] = LowerChar(c)) - 1

\* The character of a two-digit hex escape, or <<>> when it is not printable ASCII.
HexChar(code) == IF code \in 32..126 THEN <<Ascii[code - 31]>> ELSE <<>>

RECURSIVE unquote(_)
\* unquote(s): %XX escapes of printable ASCII are decoded; other text is kept.
unquote(s) ==
    IF s = <<>> THEN <<>>
    ELSE IF /\ Head(s) = "%" /\ Len(s) >= 3 /\ IsHex(s[2]) /\ IsHex(s[3])
            /\ HexChar(16 * HexVal(s[2]) + HexVal(s[3])) # <<>>
         THEN HexChar(16 * HexVal(s[2]) + HexVal(s[3])) \o unquote(Drop(s, 3))
         ELSE <<Head(s)>> \o unquote(Tail(s))

\* parse_qs, one "name=value" pair: the value when the pair has a non-blank value and
\* its name is the one asked for; e is the position of '='.
QsPairValue(pair, e, name) ==
    IF /\ e > 0
       /\ Drop(pair, e) # <<>>
       /\ unquote(Replace(Take(pair, e - 1), <<"+">>, <<" ">>)) = name
    THEN <<unquote(Replace(Drop(pair, e), <<"+">>, <<" ">>))>>
    ELSE <<>>

RECURSIVE QsValues(_, _)
\* parse_qs(query).get(name): the values of the pairs named name, in order.
QsValues(query, name) ==
    IF query = <<>> THEN <<>>
    ELSE QsPairValue(Before(query, <<"&">>), Find(Before(query, <<"&">>), <<"=">>), name)
         \o QsValues(After(query, <<"&">>), name)

(***************************************************************************)
(* ContentProcessor._normalize_generic_url                                 *)
(***************************************************************************)
\* qs.get('q') or qs.get('url')
RedirectTarget(query) ==
    IF QsValues(query, s_q) # <<>> THEN QsValues(query, s_q) ELSE QsValues(query, s_url)

\* A normalization that leaves a redirect link as it is.
Unwrapped_never(u, p, target) == u

\* The unwrapped URL: the decoded target of a Google redirect link, else u itself.
Unwrapped(u, p, target) ==
    IF /\ EndsWith(p.netloc, s_google_com)
       /\ StartsWith(p.path, s_url_path)
       /\ target # <<>>
       /\ target[1] # <<>>
    THEN unquote(target[1])
    ELSE u

EnsureScheme(u) ==
    IF urlparse(u).scheme = <<>> THEN s_https_prefix \o LStrip(u, {"/"}) ELSE u

NormalizeParsed(u, p) == EnsureScheme(Unwrapped(u, p, RedirectTarget(p.query)))

NormalizeStripped(u) == NormalizeParsed(u, urlparse(u))

\* One of the two urlparse calls raises: that of u, or that of the unwrapped target.
NormalizeRaises(u) ==
    \/ UrlparseRaises(u)
    \/ UrlparseRaises(Unwrapped(u, urlparse(u), RedirectTarget(urlparse(u).query)))

\* except Exception: return url
_normalize_generic_url(url) ==
    IF url = <<>> THEN url
    ELSE IF NormalizeRaises(Strip(url)) THEN url
    ELSE NormalizeStripped(Strip(url))

(***************************************************************************)
(* PhantomBusterClient: the URL of a Twitter entry.  A row of the          *)
(* downloaded result is a sequence of <<key, value>> pairs, in the order   *)
(* of the dict.                                                            *)
(***************************************************************************)
k_tweetUrl == <<"t","w","e","e","t","U","r","l">>
k_postUrl == <<"p","o","s","t","U","r","l">>
k_url == <<"u","r","l">>
k_link == <<"l","i","n","k">>
k_Tweet_Link == <<"T","w","e","e","t"," ","L","i","n","k">>
k_handle == <<"h","a","n","d","l","e">>
k_username == <<"u","s","e","r","n","a","m","e">>
k_userScreenName == <<"u","s","e","r","S","c","r","e","e","n","N","a","m","e">>
k_screen_name == <<"s","c","r","e","e","n","_","n","a","m","e">>
k_screenName == <<"s","c","r","e","e","n","N","a","m","e">>
k_author == <<"a","u","t","h","o","r">>
k_poster == <<"p","o","s","t","e","r">>
k_name == <<"n","a","m","e">>
k_tweetId == <<"t","w","e","e","t","I","d">>
k_id == <<"i","d">>
k_status_id == <<"s","t","a","t","u","s","_","i","d">>
c_tweet_link == <<"t","w","e","e","t"," ","l","i","n","k">>
c_tweet_url == <<"t","w","e","e","t"," ","u","r","l">>
c_tweet_url_u == <<"t","w","e","e","t","_","u","r","l">>
c_tweetlink == <<"t","w","e","e","t","l","i","n","k">>
c_tweetURL == <<"t","w","e","e","t","U","R","L">>
c_status_url == <<"s","t","a","t","u","s"," ","u","r","l">>
c_status_link == <<"s","t","a","t","u","s"," ","l","i","n","k">>
c_permalink == <<"p","e","r","m","a","l","i","n","k">>
c_permalink_url == <<"p","e","r","m","a","l","i","n","k"," ","u","r","l">>
c_tweet_permalink == <<"t","w","e","e","t"," ","p","e","r","m","a","l","i","n","k">>
c_tweet_perma_link == <<"t","w","e","e","t","_","p","e","r","m","a","_","l","i","n","k">>
c_tweetpermalink == <<"t","w","e","e","t","p","e","r","m","a","l","i","n","k">>
s_mobile_twitter_com == <<"m","o","b","i","l","e",".","t","w","i","t","t","e","r",".","c","o","m">>
s_twitter_com == <<"t","w","i","t","t","e","r",".","c","o","m">>
s_x_com == <<"x",".","c","o","m">>
s_https_colon == <<"h","t","t","p","s",":">>
s_http_prefix == <<"h","t","t","p",":","/","/">>
s_x_com_prefix == <<"h","t","t","p","s",":","/","/","x",".","c","o","m","/">>
s_status_path == <<"/","s","t","a","t","u","s","/">>
s_statuses_path == <<"/","s","t","a","t","u","s","e","s","/">>
s_slash_status == <<"/","s","t","a","t","u","s">>
s_i_status == <<"h","t","t","p","s",":","/","/","x",".","c","o","m","/","i","/","s","t","a","t","u","s","/">>
v_tw_status == <<"h","t","t","p","s",":","/","/","t","w","i","t","t","e","r",".","c","o","m","/","b","o","b","/","s","t","a","t","u","s","/","1","2","3">>
v_tw_mobile == <<"h","t","t","p","s",":","/","/","m","o","b","i","l","e",".","t","w","i","t","t","e","r",".","c","o","m","/","b","o","b","/","s","t","a","t","u","s","e","s","/","1","2","3","?","s","=","2","0">>
v_tw_web == <<"t","w","i","t","t","e","r",".","c","o","m","/","i","/","w","e","b","/","s","t","a","t","u","s","/","1","2","3">>
v_tw_profile == <<"/","/","x",".","c","o","m","/","b","o","b">>
v_tw_wrapped == <<"h","t","t","p","s",":","/","/","w","w","w",".","g","o","o","g","l","e",".","c","o","m","/","u","r","l","?","q","=","h","t","t","p","s",":","/","/","t","w","i","t","t","e","r",".","c","o","m","/","b","o","b","/","s","t","a","t","u","s","/","1","2","3">>
v_handle_at == <<"@","b","o","b">>
v_handle_other == <<"a","l","i","c","e">>
v_id_digits == <<"4","5","6">>
v_id_other == <<"4","a","6">>
s_i_web_status == <<"/","i","/","w","e","b","/","s","t","a","t","u","s","/">>

RowHas(row, key) == \E i \in DOMAIN row : row[i][1] = key

\* row.get(key)
RowGet(row, key) ==
    IF RowHas(row, key) THEN row[CHOOSE i \in DOMAIN row : row[i][1] = key][2] ELSE NoneVal

Truthy(v) == v # NoneVal /\ v # <<>>

RECURSIVE FirstTruthy(_, _)
\* row.get(k1) or row.get(k2) or ... or '': the first value that is not empty.
FirstTruthy(row, keys) ==
    IF keys = <<>> THEN <<>>
    ELSE IF Truthy(RowGet(row, Head(keys))) THEN RowGet(row, Head(keys))
    ELSE FirstTruthy(row, Tail(keys))

IsKeyChar(c) == IsDigit(c) \/ c \in {Ascii[i] : i \in 66..91}

\* re.sub(r'[^a-z0-9]', '', str(k).lower())
NormKey(k) == SelectSeq(Lower(k), IsKeyChar)

\* normalized_map.get(norm): the value of the last key of the row that normalizes to norm.
NormalizedMapGet(row, norm) ==
    IF \E i \in DOMAIN row : NormKey(row[i][1]) = norm
    THEN row[CHOOSE i \in DOMAIN row :
                 /\ NormKey(row[i][1]) = norm
                 /\ \A j \in DOMAIN row : j > i => NormKey(row[j][1]) # norm][2]
    ELSE NoneVal

RECURSIVE _get_caseinsensitive_field(_, _)
_get_caseinsensitive_field(row, candidate_names) ==
    IF candidate_names = <<>> THEN <<>>
    ELSE IF Truthy(NormalizedMapGet(row, NormKey(Head(candidate_names))))
    THEN NormalizedMapGet(row, NormKey(Head(candidate_names)))
    ELSE _get_caseinsensitive_field(row, Tail(candidate_names))

TweetLinkCandidates ==
    <<c_tweet_link, c_tweet_url, c_tweet_url_u, c_tweetlink, c_tweetURL, c_status_url,
      c_status_link, c_permalink, c_permalink_url, c_tweet_permalink, c_tweet_perma_link,
      c_tweetpermalink>>

\* re.match(r'^https?://', u, re.IGNORECASE)
MatchesHttp(u) == Lower(Take(u, 7)) = s_http_prefix \/ Lower(Take(u, 8)) = s_https_prefix

\* '//host' gets 'https:', anything else that does not start with http(s):// gets
\* 'https://' in place of its leading slashes.
LinkScheme(u) ==
    IF StartsWith(u, <<"/", "/">>) THEN s_https_colon \o u
    ELSE IF ~MatchesHttp(u) THEN s_https_prefix \o LStrip(u, {"/"})
    ELSE u

\* .replace('mobile.twitter.com', 'twitter.com').replace('twitter.com', 'x.com')
TwitterDomains(u) == Replace(Replace(u, s_mobile_twitter_com, s_twitter_com), s_twitter_com, s_x_com)

TweetLinkOf(link) == IF link = <<>> THEN <<>> ELSE TwitterDomains(LinkScheme(Strip(link)))

_extract_tweet_link(row) == TweetLinkOf(_get_caseinsensitive_field(row, TweetLinkCandidates))

_unwrap_google_redirect(u) ==
    IF UrlparseRaises(u) THEN u ELSE Unwrapped(u, urlparse(u), RedirectTarget(urlparse(u).query))

_ensure_scheme(u) == IF u = <<>> THEN u ELSE LinkScheme(u)

RECURSIVE DigitRun(_)
\* (\d+) at the start of s: the longest run of digits, <<>> when s starts with none.
DigitRun(s) ==
    IF s # <<>> /\ IsDigit(Head(s)) THEN <<Head(s)>> \o DigitRun(Tail(s)) ELSE <<>>

\* The digits after the first of the prefixes that s starts with and that digits follow.
RECURSIVE DigitsAfterAny(_, _)
DigitsAfterAny(s, prefixes) ==
    IF prefixes = <<>> THEN <<>>
    ELSE IF StartsWith(s, Head(prefixes)) /\ DigitRun(Drop(s, Len(Head(prefixes)))) # <<>>
    THEN DigitRun(Drop(s, Len(Head(prefixes))))
    ELSE DigitsAfterAny(s, Tail(prefixes))

RECURSIVE SearchDigitsAfter(_, _)
\* re.search of prefix(\d+): group 1 of the leftmost match, <<>> when there is none.
SearchDigitsAfter(s, prefixes) ==
    IF s = <<>> THEN <<>>
    ELSE IF DigitsAfterAny(s, prefixes) # <<>> THEN DigitsAfterAny(s, prefixes)
    ELSE SearchDigitsAfter(Tail(s), prefixes)

\* re.search(r'/status(?:es)?/(\d+)', url), else re.search(r'/i/web/status/(\d+)', url)
TweetIdIn(url) ==
    IF SearchDigitsAfter(url, <<s_statuses_path, s_status_path>>) # <<>>
    THEN SearchDigitsAfter(url, <<s_statuses_path, s_status_path>>)
    ELSE SearchDigitsAfter(url, <<s_i_web_status>>)

UrlKeys == <<k_tweetUrl, k_postUrl, k_url, k_link>>

UsernameKeys ==
    <<k_handle, k_username, k_userScreenName, k_screen_name, k_screenName, k_author,
      k_poster, k_name>>

RowIdKeys == <<k_tweetId, k_id, k_status_id>>

\* (username or '').replace('@', '').strip()
UsernameOf(row) == Strip(Replace(FirstTruthy(row, UsernameKeys), <<"@">>, <<>>))

\* str.isdigit()
IsDigits(s) == s # <<>> /\ \A i \in DOMAIN s : IsDigit(s[i])

CanonicalTweetUrl(username, tweet_id) ==
    IF username # <<>>
    THEN s_x_com_prefix \o username \o s_status_path \o tweet_id
    ELSE s_i_status \o tweet_id

\* From the URL with its domain replaced, the id found in it, the username and the
\* row's id field.
TwitterUrlFrom(url, tweet_id, username, row_id) ==
    IF tweet_id # <<>> THEN CanonicalTweetUrl(username, tweet_id)
    ELSE IF IsDigits(row_id) THEN CanonicalTweetUrl(username, row_id)
    ELSE url

\* url is the row's URL after the unwrapping and _ensure_scheme.
NormalizeTwitterUrlOf(row, url) ==
    IF url = <<>> THEN url
    ELSE TwitterUrlFrom(TwitterDomains(url), TweetIdIn(TwitterDomains(url)), UsernameOf(row),
                        Strip(FirstTruthy(row, RowIdKeys)))

_normalize_twitter_url(row) ==
    NormalizeTwitterUrlOf(row,
        _ensure_scheme(_unwrap_google_redirect(Strip(FirstTruthy(row, UrlKeys)))))

\* An entry URL that is always rebuilt from the row.
TweetUrl_alwaysRebuilt(row) == _normalize_twitter_url(row)

\* url = self._extract_tweet_link(row) or self._normalize_twitter_url(row)
TweetUrl(row) ==
    IF _extract_tweet_link(row) # <<>> THEN _extract_tweet_link(row)
    ELSE _normalize_twitter_url(row)

(***************************************************************************)
(* ContentProcessor._determine_tag                                         *)
(***************************************************************************)
\* A tag that looks for 'linkedin' before 'twitter' and 'x post'.
_determine_tag_linkedinFirst(entry) ==
    LET source == Lower(Get(entry, "source", <<>>))
    IN IF Contains(source, s_linkedin) THEN tag_LinkedIn
       ELSE IF Contains(source, s_twitter) \/ Contains(source, s_x_post) THEN tag_X_Post
       ELSE tag_Article

_determine_tag(entry) ==
    LET source == Lower(Get(entry, "source", <<>>))
    IN IF Contains(source, s_twitter) \/ Contains(source, s_x_post) THEN tag_X_Post
       ELSE IF Contains(source, s_linkedin) THEN tag_LinkedIn
       ELSE IF Contains(source, s_rss) THEN tag_Article
       ELSE tag_Article

(***************************************************************************)
(* ContentProcessor._generate_title / _generate_summary.  The language     *)
(* model is an external capability: llm is what one call does, either      *)
(* [kind |-> "ok", text |-> reply] or [kind |-> "raise", text |-> <<>>].   *)
(***************************************************************************)
TitleMinLen == 10

SummaryFallbackLen == 200

_generate_title(entry, llm) ==
    LET existing_title == Get(entry, "title", <<>>)
    IN IF /\ existing_title # <<>>
          /\ Len(existing_title) > TitleMinLen
          /\ ~StartsWith(existing_title, s_http)
       THEN [title |-> existing_title, called |-> FALSE]
       ELSE IF llm.kind = "ok"
       THEN [title  |-> IF Strip(llm.text) # <<>> THEN Strip(llm.text) ELSE existing_title,
             called |-> TRUE]
       ELSE [title  |-> IF existing_title # <<>> THEN existing_title ELSE s_default_title,
             called |-> TRUE]

_generate_summary(entry, llm) ==
    LET description == Get(entry, "description", <<>>)
        content == IF description # <<>> THEN description ELSE Get(entry, "title", <<>>)
    IN IF llm.kind = "ok"
       THEN IF Strip(llm.text) # <<>> THEN Strip(llm.text)
            ELSE Take(content, SummaryFallbackLen) \o s_ellipsis
       ELSE IF Len(content) > SummaryFallbackLen
            THEN Take(content, SummaryFallbackLen) \o s_ellipsis
            ELSE content

(***************************************************************************)
(* ContentProcessor._process_single_entry.  The result says whether the    *)
(* call raised, the processed entry when it did not, and which language-   *)
(* model calls were made.                                                  *)
(***************************************************************************)
ProcessedKeys ==
    {"tag", "title", "summary", "url", "source", "published_date", "author", "original_entry"}

\* A processed entry that has an author only when the collected entry has one.
ProcessedEntry_authorIfPresent(entry, cleaned_entry, t, tag, llmSummary) ==
    [raised         |-> FALSE,
     title_called   |-> t.called,
     summary_called |-> tag # tag_X_Post,
     entry |-> [k \in ProcessedKeys \ (IF "author" \in DOMAIN entry THEN {} ELSE {"author"}) |->
                   CASE k = "tag" -> tag
                     [] k = "title" -> _clean_html_tags(t.title)
                     [] k = "summary" -> IF tag = tag_X_Post THEN <<>>
                                         ELSE _clean_html_tags(
                                                  _generate_summary(cleaned_entry, llmSummary))
                     [] k = "url" -> _normalize_generic_url(Get(entry, "url", <<>>))
                     [] k = "original_entry" -> entry
                     [] OTHER -> Get(entry, k, <<>>)]]

\* A processed entry that is summarized whatever its tag.
ProcessedEntry_summarizesAll(entry, cleaned_entry, t, tag, llmSummary) ==
    [raised         |-> FALSE,
     title_called   |-> t.called,
     summary_called |-> TRUE,
     entry |-> [tag            |-> tag,
                title          |-> _clean_html_tags(t.title),
                summary        |-> _clean_html_tags(_generate_summary(cleaned_entry, llmSummary)),
                url            |-> _normalize_generic_url(Get(entry, "url", <<>>)),
                source         |-> Get(entry, "source", <<>>),
                published_date |-> Get(entry, "published_date", <<>>),
                author         |-> Get(entry, "author", <<>>),
                original_entry |-> entry]]

\* The processed entry, from the cleaned copy, the generated title (t) and the tag.
ProcessedEntry(entry, cleaned_entry, t, tag, llmSummary) ==
    [raised         |-> FALSE,
     title_called   |-> t.called,
     summary_called |-> tag # tag_X_Post,
     entry |-> [tag            |-> tag,
                title          |-> _clean_html_tags(t.title),
                summary        |-> IF tag = tag_X_Post THEN <<>>
                                   ELSE _clean_html_tags(
                                            _generate_summary(cleaned_entry, llmSummary)),
                url            |-> _normalize_generic_url(Get(entry, "url", <<>>)),
                source         |-> Get(entry, "source", <<>>),
                published_date |-> Get(entry, "published_date", <<>>),
                author         |-> Get(entry, "author", <<>>),
                original_entry |-> entry]]

ProcessCleaned(entry, cleaned_entry, llmTitle, llmSummary) ==
    ProcessedEntry(entry, cleaned_entry, _generate_title(cleaned_entry, llmTitle),
                   _determine_tag(cleaned_entry), llmSummary)

\* cleaned_entry = entry.copy() with title and description cleaned
CleanedCopy(entry) ==
    [k \in DOMAIN entry \cup {"title", "description"} |->
        IF k \in {"title", "description"}
        THEN _clean_html_tags(Get(entry, k, <<>>))
        ELSE entry[k]]

\* A _process_single_entry that lets a failed language-model call propagate.
_process_single_entry_llmFailureRaises(entry, llmTitle, llmSummary) ==
    IF \/ CleanRaises(Get(entry, "title", <<>>))
       \/ CleanRaises(Get(entry, "description", <<>>))
       \/ llmTitle.kind = "raise"
       \/ llmSummary.kind = "raise"
    THEN [raised |-> TRUE, title_called |-> FALSE, summary_called |-> FALSE]
    ELSE ProcessCleaned(entry, CleanedCopy(entry), llmTitle, llmSummary)

_process_single_entry(entry, llmTitle, llmSummary) ==
    IF CleanRaises(Get(entry, "title", <<>>)) \/ CleanRaises(Get(entry, "description", <<>>))
    THEN [raised |-> TRUE, title_called |-> FALSE, summary_called |-> FALSE]
    ELSE ProcessCleaned(entry, CleanedCopy(entry), llmTitle, llmSummary)

(***************************************************************************)
(* ContentProcessor._validate_article_main_content.  page is what the      *)
(* fetch of the URL does: [kind |-> "status"] (a non-2xx answer),          *)
(* [kind |-> "exception"] (requests or the parser raises) or               *)
(* [kind |-> "ok"] with the main text the extraction selects and the       *)
(* canonical URL of the page (NoneVal when the page names none).           *)
(***************************************************************************)
\* A validation that drops the entry when the fetch is answered with a non-2xx status.
_validate_article_main_content_failClosed(url, page) ==
    IF url = <<>> \/ url = NoneVal
    THEN [is_relevant |-> FALSE, canonical_url |-> NoneVal, fetched |-> FALSE, log |-> <<>>]
    ELSE IF page.kind = "exception"
    THEN [is_relevant |-> TRUE, canonical_url |-> NoneVal, fetched |-> TRUE, log |-> <<>>]
    ELSE [is_relevant   |-> page.kind = "ok" /\ HasKeyword(Lower(page.main_text)),
          canonical_url |-> page.canonical,
          fetched       |-> TRUE,
          log           |-> <<>>]

_validate_article_main_content(url, page) ==
    IF url = <<>> \/ url = NoneVal
    THEN [is_relevant |-> FALSE, canonical_url |-> NoneVal, fetched |-> FALSE, log |-> <<>>]
    ELSE IF page.kind = "status"
    THEN [is_relevant |-> TRUE, canonical_url |-> NoneVal, fetched |-> TRUE,
          log |-> <<[msg |-> "Fetch failed for URL", arg |-> _normalize_generic_url(url)]>>]
    ELSE IF page.kind = "exception"
    THEN [is_relevant |-> TRUE, canonical_url |-> NoneVal, fetched |-> TRUE,
          log |-> <<[msg |-> "Main-content validation failed for URL", arg |-> url]>>]
    ELSE [is_relevant   |-> HasKeyword(Lower(page.main_text)),
          canonical_url |-> page.canonical,
          fetched       |-> TRUE,
          log           |-> <<>>]

(***************************************************************************)
(* ContentProcessor._filter_by_keywords, one iteration of its loop: what   *)
(* happens to one entry.  validate_main is                                 *)
(* os.getenv('ARTICLE_VALIDATE_MAIN_CONTENT', '1') != '0'.                 *)
(***************************************************************************)
SkipLogLen == 80

text_content(entry) ==
    Lower(Format(Get(entry, "title", <<>>)) \o <<" ">> \o Format(Get(entry, "description", <<>>)))

\* (entry.get(k) or '').lower()
LowerOrEmpty(entry, k) ==
    IF Get(entry, k, NoneVal) = NoneVal THEN <<>> ELSE Lower(entry[k])

is_x_post(entry) ==
    \/ Contains(LowerOrEmpty(entry, "source"), s_twitter)
    \/ LowerOrEmpty(entry, "tag") = s_x_post
    \/ Contains(LowerOrEmpty(entry, "source"), s_x_post)

\* The validation branch is entered: the entry passed the exclusion and the keyword check.
ValidationCalled(entry, validate_main) ==
    /\ ~(is_x_post(entry) /\ Contains(text_content(entry), s_at_leavedelaware))
    /\ HasKeyword(text_content(entry))
    /\ validate_main
    /\ Contains(LowerOrEmpty(entry, "source"), s_rss)

\* The entry after the validation answered v: dropped when not relevant, its url
\* replaced when the page names a canonical URL.
AfterValidation(entry, v) ==
    [keep      |-> v.is_relevant,
     entry     |-> IF v.is_relevant /\ v.canonical_url # NoneVal
                   THEN [entry EXCEPT !.url = v.canonical_url]
                   ELSE entry,
     validated |-> TRUE,
     fetched   |-> v.fetched,
     log       |-> v.log]

NotValidated(entry, keep, log) ==
    [keep |-> keep, entry |-> entry, validated |-> FALSE, fetched |-> FALSE, log |-> log]

\* A filter without the keyword check.
FilterOneText_noKeywordCheck(entry, text, validate_main, page) ==
    NotValidated(entry, ~(is_x_post(entry) /\ Contains(text, s_at_leavedelaware)), <<>>)

\* A filter that validates the entries of every source.
FilterOneText_validatesEverySource(entry, text, validate_main, page) ==
    IF is_x_post(entry) /\ Contains(text, s_at_leavedelaware)
    THEN NotValidated(entry, FALSE, <<>>)
    ELSE IF ~HasKeyword(text)
    THEN NotValidated(entry, FALSE, <<>>)
    ELSE IF validate_main
    THEN AfterValidation(entry,
                         _validate_article_main_content(Get(entry, "url", NoneVal), page))
    ELSE NotValidated(entry, TRUE, <<>>)

\* A filter that keeps the X posts that mention @LeaveDelaware.
FilterOneText_keepsMentions(entry, text, validate_main, page) ==
    IF ~HasKeyword(text)
    THEN NotValidated(entry, FALSE, <<>>)
    ELSE IF validate_main /\ Contains(LowerOrEmpty(entry, "source"), s_rss)
    THEN AfterValidation(entry,
                         _validate_article_main_content(Get(entry, "url", NoneVal), page))
    ELSE NotValidated(entry, TRUE, <<>>)

\* text is text_content(entry).
FilterOneText(entry, text, validate_main, page) ==
    IF is_x_post(entry) /\ Contains(text, s_at_leavedelaware)
    THEN NotValidated(entry, FALSE,
                      <<[msg |-> "Skipping X post mentioning @LeaveDelaware",
                         arg |-> Take(Get(entry, "title", <<>>), SkipLogLen)]>>)
    ELSE IF ~HasKeyword(text)
    THEN NotValidated(entry, FALSE, <<>>)
    ELSE IF validate_main /\ Contains(LowerOrEmpty(entry, "source"), s_rss)
    THEN AfterValidation(entry,
                         _validate_article_main_content(Get(entry, "url", NoneVal), page))
    ELSE NotValidated(entry, TRUE, <<>>)

FilterOne(entry, validate_main, page) ==
    FilterOneText(entry, text_content(entry), validate_main, page)

\* A loop that keeps one of several equal entries.
FilterCons_dedup(one, rest) ==
    [filtered |-> (IF one.keep /\ ~\E i \in DOMAIN rest.filtered : rest.filtered[i] = one.entry
                   THEN <<one.entry>> ELSE <<>>) \o rest.filtered,
     steps    |-> <<one>> \o rest.steps,
     log      |-> one.log \o rest.log]

\* The result of the loop from the result for its first entry and for the others.
FilterCons(one, rest) ==
    [filtered |-> (IF one.keep THEN <<one.entry>> ELSE <<>>) \o rest.filtered,
     steps    |-> <<one>> \o rest.steps,
     log      |-> one.log \o rest.log]

RECURSIVE _filter_by_keywords(_, _, _)
\* The whole loop over entries; pages[i] is what the fetch for entries[i] does.
\* Result: the filtered list, per input entry what happened, and the log lines written.
_filter_by_keywords(entries, validate_main, pages) ==
    IF entries = <<>>
    THEN [filtered |-> <<>>, steps |-> <<>>, log |-> <<>>]
    ELSE FilterCons(FilterOne(Head(entries), validate_main, Head(pages)),
                    _filter_by_keywords(Tail(entries), validate_main, Tail(pages)))

(***************************************************************************)
(* DigestFormatter.format_digest                                           *)
(***************************************************************************)
RECURSIVE InsertDescending(_, _)
\* Place x after every element whose key is not smaller (stable, reverse=True).
InsertDescending(sorted, x) ==
    IF sorted = <<>> THEN <<x>>
    ELSE IF StrLess(Get(Head(sorted), "published_date", <<>>), Get(x, "published_date", <<>>))
    THEN <<x>> \o sorted
    ELSE <<Head(sorted)>> \o InsertDescending(Tail(sorted), x)

RECURSIVE SortedNewestFirst(_)
\* sorted(entries, key=lambda x: x.get('published_date', ''), reverse=True)
SortedNewestFirst(entries) ==
    IF entries = <<>> THEN <<>>
    ELSE InsertDescending(SortedNewestFirst(SubSeq(entries, 1, Len(entries) - 1)),
                          entries[Len(entries)])

\* _format_text_digest / _format_html_digest: one item per entry, in order; an X Post
\* shows its date (when it has one) and no summary, every other entry its summary.
FormatItems(entries) ==
    [i \in 1..Len(entries) |->
        [n     |-> i,
         tag   |-> entries[i].tag,
         title |-> entries[i].title,
         body  |-> IF entries[i].tag = tag_X_Post
                   THEN entries[i].published_date
                   ELSE entries[i].summary,
         url   |-> entries[i].url]]

_create_empty_digest ==
    [total_entries |-> 0, formatted_text |-> <<>>, formatted_html |-> <<>>, entries |-> <<>>]

\* A digest that counts each distinct entry once.
DigestOf_countsDistinct(sorted_entries) ==
    [total_entries  |-> Cardinality({sorted_entries[i] : i \in DOMAIN sorted_entries}),
     formatted_text |-> FormatItems(sorted_entries),
     formatted_html |-> FormatItems(sorted_entries),
     entries        |-> sorted_entries]

DigestOf(sorted_entries) ==
    [total_entries  |-> Len(sorted_entries),
     formatted_text |-> FormatItems(sorted_entries),
     formatted_html |-> FormatItems(sorted_entries),
     entries        |-> sorted_entries]

\* A digest of the entries in the order they came in.
format_digest_unsorted(entries) ==
    IF entries = <<>> THEN _create_empty_digest ELSE DigestOf(entries)

format_digest(entries) ==
    IF entries = <<>> THEN _create_empty_digest ELSE DigestOf(SortedNewestFirst(entries))

(***************************************************************************)
(* What the world hands the pipeline: feed items and scraped posts as the  *)
(* collectors emit them, pages, language-model replies.                    *)
(***************************************************************************)
src_RSS == <<"R","S","S">>
src_Twitter_hashtag == <<"T","w","i","t","t","e","r"," ","(","t","w","i","t","t","e","r","_","h","a","s","h","t","a","g",")">>
src_Twitter_search == <<"T","w","i","t","t","e","r"," ","(","t","w","i","t","t","e","r","_","s","e","a","r","c","h",")">>
src_LinkedIn == <<"L","i","n","k","e","d","I","n">>
t_leave == <<"W","h","y"," ","f","i","r","m","s"," ","L","e","a","v","e"," ","D","e","l","a","w","a","r","e">>
t_html == <<"<","b",">","D","e","l","a","w","a","r","e","<","/","b",">"," ","e","x","i","t"," ","&","a","m","p",";"," ","m","o","r","e">>
t_firms_leave == <<"F","i","r","m","s"," ","l","e","a","v","e">>
t_delaware_behind == <<"D","e","l","a","w","a","r","e"," ","b","e","h","i","n","d">>
t_weather == <<"W","e","a","t","h","e","r"," ","t","o","d","a","y">>
t_sunny == <<"S","u","n","n","y">>
t_taxes_upper == <<"D","E","L","A","W","A","R","E"," ","T","A","X","E","S">>
t_mention == <<"@","L","e","a","v","e","D","e","l","a","w","a","r","e"," ","i","s"," ","r","i","g","h","t">>
t_tax_news == <<"T","a","x"," ","n","e","w","s">>
t_relocation == <<"A"," ","c","o","r","p","o","r","a","t","e"," ","r","e","l","o","c","a","t","i","o","n"," ","w","a","v","e">>
t_tweet == <<"T","i","m","e"," ","t","o"," ","L","e","a","v","e"," ","D","e","l","a","w","a","r","e">>
t_linkedin == <<"D","e","l","a","w","a","r","e"," ","i","n","c","o","r","p","o","r","a","t","i","o","n"," ","t","i","p","s">>
t_llm_title == <<"D","e","l","a","w","a","r","e"," ","C","o","u","r","t"," ","o","f"," ","C","h","a","n","c","e","r","y"," ","r","u","l","i","n","g">>
t_llm_summary == <<" ","F","i","r","m","s"," ","a","r","e"," ","m","o","v","i","n","g","."," ">>
t_page_kw == <<"T","h","e"," ","D","e","l","a","w","a","r","e"," ","C","o","u","r","t"," ","o","f"," ","C","h","a","n","c","e","r","y"," ","r","u","l","e","d"," ","t","o","d","a","y">>
t_page_other == <<"R","e","a","d"," ","m","o","r","e",":"," ","t","e","n"," ","g","a","r","d","e","n"," ","t","i","p","s">>
u_redirect == <<"h","t","t","p","s",":","/","/","w","w","w",".","g","o","o","g","l","e",".","c","o","m","/","u","r","l","?","r","c","t","=","j","&","u","r","l","=","h","t","t","p","s","%","3","A","%","2","F","%","2","F","e","x","a","m","p","l","e",".","c","o","m","%","2","F","a","&","c","t","=","g","a">>
u_plain == <<"h","t","t","p","s",":","/","/","e","x","a","m","p","l","e",".","c","o","m","/","b">>
u_noscheme == <<"e","x","a","m","p","l","e",".","c","o","m","/","c">>
u_canonical == <<"h","t","t","p","s",":","/","/","e","x","a","m","p","l","e",".","c","o","m","/","c","a","n","o","n","i","c","a","l">>
u_tweet == <<"h","t","t","p","s",":","/","/","x",".","c","o","m","/","b","o","b","/","s","t","a","t","u","s","/","1","2","3">>
u_linkedin == <<"h","t","t","p","s",":","/","/","w","w","w",".","l","i","n","k","e","d","i","n",".","c","o","m","/","p","o","s","t","s","/","a","n","n","-","1">>
d_rss_early == <<"2","0","2","6","-","1","0","-","3","1","T","0","9",":","0","0",":","0","0">>
d_rss_late == <<"2","0","2","6","-","1","0","-","3","1","T","1","8",":","3","0",":","0","0">>
d_tweet == <<"2","0","2","6","-","1","0","-","3","1">>
d_linkedin == <<"2","0","2","6","-","1","0","-","3","1","T","1","2",":","0","0",":","0","0">>
a_bob == <<"b","o","b">>
a_ann == <<"A","n","n">>

w_google_q == <<"h","t","t","p","s",":","/","/","w","w","w",".","g","o","o","g","l","e",".","c","o","m","/","u","r","l","?","q","=">>
w_google_url == <<"h","t","t","p","s",":","/","/","w","w","w",".","g","o","o","g","l","e",".","c","o","m","/","u","r","l","?","r","c","t","=","j","&","u","r","l","=">>
w_notgoogle == <<"h","t","t","p","s",":","/","/","n","o","t","g","o","o","g","l","e",".","c","o","m","/","u","r","l","?","q","=">>
w_search == <<"h","t","t","p","s",":","/","/","w","w","w",".","g","o","o","g","l","e",".","c","o","m","/","s","e","a","r","c","h","?","q","=">>
w_schemeless == <<"w","w","w",".","g","o","o","g","l","e",".","c","o","m","/","u","r","l","?","q","=">>
x_ct == <<"&","c","t","=","g","a">>
u_badhost == <<"/","/","[","b","a","d">>
u_nested == <<"h","t","t","p","s",":","/","/","w","w","w",".","g","o","o","g","l","e",".","c","o","m","/","u","r","l","?","q","=","h","t","t","p","s",":","/","/","e","x","a","m","p","l","e",".","c","o","m","/","b">>

\* Links as a feed item or a post can carry them: a target, bare or wrapped in a
\* redirect link, with or without a trailing parameter and surrounding blanks.
UrlTargets == {<<>>, u_plain, u_noscheme, u_badhost, u_nested}

UrlWrappers == {<<>>, w_google_q, w_google_url, w_notgoogle, w_search, w_schemeless}

UrlInputs ==
    {u_redirect} \cup
    {pad \o w \o t \o x \o pad :
        pad \in {<<>>, <<" ">>}, w \in UrlWrappers, t \in UrlTargets, x \in {<<>>, x_ct}}

\* RSSParser._parse_feed emits source, title, description, url, published_date (no author).
RssItem(title, description, url, published_date) ==
    [source |-> src_RSS, title |-> title, description |-> description, url |-> url,
     published_date |-> published_date]

\* The PhantomBuster parsers emit the same keys and an author; title and description
\* are both the post's text.
PbItem(source, text, url, published_date, author) ==
    [source |-> source, title |-> text, description |-> text, url |-> url,
     published_date |-> published_date, author |-> author]

\* What the collectors emit in a run of the pipeline.
RssItems ==
    {RssItem(t_leave, t_html, u_redirect, d_rss_early)}

PbItems ==
    {PbItem(src_Twitter_hashtag, t_tweet, u_tweet, d_tweet, a_bob),
     PbItem(src_Twitter_search, t_mention, u_tweet, d_tweet, a_bob),
     PbItem(src_LinkedIn, t_linkedin, u_linkedin, d_linkedin, a_ann),
     PbItem(src_Twitter_hashtag, NonStr, u_tweet, d_tweet, a_bob)}

\* Entries for _filter_by_keywords explored on its own: the ones above, an RSS entry
\* without keyword, one whose keyword spans the end of the title and the start of the
\* description, one with an upper-case keyword and an empty url, and posts that
\* mention @LeaveDelaware: from LinkedIn, from a source named X Post, and one that
\* carries the tag X Post.
FilterInputs ==
    RssItems \cup PbItems \cup
    {RssItem(t_weather, t_sunny, u_plain, d_rss_late),
     RssItem(t_firms_leave, t_delaware_behind, u_plain, d_rss_late),
     RssItem(t_tax_news, t_taxes_upper, <<>>, d_rss_late),
     PbItem(src_LinkedIn, t_mention, u_linkedin, d_linkedin, a_ann),
     PbItem(tag_X_Post, t_mention, u_tweet, d_tweet, a_bob),
     ("tag" :> tag_X_Post) @@ PbItem(a_ann, t_mention, u_tweet, d_tweet, a_bob)}

\* 'raw_data': the downloaded item the entry was built from; it is identified by the
\* run that downloaded it.
WithRawData(item, r) ==
    [k \in DOMAIN item \cup {"raw_data"} |-> IF k = "raw_data" THEN [run |-> r] ELSE item[k]]

SeqsUpTo(S, n) == UNION {[1..k -> S] : k \in 0..n}

NoPage == [kind |-> "none", main_text |-> <<>>, canonical |-> NoneVal]

PageOutcomes ==
    {[kind |-> "status", main_text |-> <<>>, canonical |-> NoneVal],
     [kind |-> "exception", main_text |-> <<>>, canonical |-> NoneVal],
     [kind |-> "ok", main_text |-> t_page_kw, canonical |-> NoneVal],
     [kind |-> "ok", main_text |-> t_page_kw, canonical |-> u_canonical],
     [kind |-> "ok", main_text |-> t_page_other, canonical |-> u_canonical]}

\* One page outcome per entry: an outcome where the code requests the page, NoPage elsewhere.
PagesFor(entries, validate_main) ==
    LET requested == [i \in 1..Len(entries) |->
                         /\ ValidationCalled(entries[i], validate_main)
                         /\ Get(entries[i], "url", NoneVal) \notin {<<>>, NoneVal}]
    IN {pages \in [1..Len(entries) -> PageOutcomes \cup {NoPage}] :
           \A i \in 1..Len(entries) : (pages[i] # NoPage) <=> requested[i]}

NoLlm == [kind |-> "none", text |-> <<>>]

TitleReplies ==
    {[kind |-> "ok", text |-> t_llm_title], [kind |-> "ok", text |-> <<>>],
     [kind |-> "raise", text |-> <<>>]}

SummaryReplies ==
    {[kind |-> "ok", text |-> t_llm_summary], [kind |-> "ok", text |-> <<>>],
     [kind |-> "raise", text |-> <<>>]}

(***************************************************************************)
(* Bounds of the model.                                                    *)
(***************************************************************************)
\* Entries the collectors emit over a whole behaviour of the pipeline.
MaxEntries == 2

\* Entries the RSS collector emits in one run.
MaxRss == 1

\* Runs of main.py in a behaviour.
MaxRuns == 2

\* Entries handed to _filter_by_keywords when it is explored on its own.
MaxBatch == 2

\* The scheduler's clock counts slots; a day has SlotsPerDay of them.
SlotsPerDay == 3

\* Days the scheduler is followed for.
MaxDays == 3

\* Slots a run of main.py can take (more than a day).
MaxDuration == 4

(***************************************************************************)
(* State.                                                                  *)
(***************************************************************************)
VARIABLES
    pc,                 \* where main() is
    run,                \* number of the current run of main.py
    validate_main,      \* ARTICLE_VALIDATE_MAIN_CONTENT != '0' in this run's environment
    rss_data,           \* main: rss_data
    pb_data,            \* main: pb_data
    all_data,           \* main: all_data
    filtered_entries,   \* process_entries: filtered_entries
    idx,                \* process_entries: position of the loop over filtered_entries
    processed_entries,  \* process_entries: processed_entries
    digest,             \* main: digest, <<>> while unbound, <<d>> once format_digest returned
    slack_result,       \* main: slack_result ("unset", "True", "False")
    gmail_result,       \* main: gmail_result
    calls,              \* history: the stage calls of this run, in order
    filter_steps,       \* history: per collected entry, the entry as passed in, what its
                        \* fetch did and what _filter_by_keywords did with it
    process_steps,      \* history: per filtered entry, what _process_single_entry did
    slack_sent,         \* history: the digests handed to SlackSender.send_digest
    gmail_sent,         \* history: the digests handed to GmailSender.send_digest
    logFile,            \* logs/ldnews_<date>.log: the lines written that interpolate text, kept across runs
    emitted,            \* number of entries the collectors emitted so far (bounded)
    spc,                \* scheduler.py: position ("off", "boot", "pending", "sleeping")
    clock,              \* scheduler.py: datetime.now(), in slots
    next_run,           \* schedule: the job's next_run, in slots
    starts,             \* history: the runs the scheduler started, [at, until]
    fn,                 \* a function explored on its own: its name ("none" when there is none)
    arg,                \* the argument it is called with
    ret                 \* <<>> before it returned, <<value>> after

vars ==
    <<pc, run, validate_main, rss_data, pb_data, all_data, filtered_entries, idx,
      processed_entries, digest, slack_result, gmail_result, calls, filter_steps,
      process_steps, slack_sent, gmail_sent, logFile, emitted, spc, clock, next_run,
      starts, fn, arg, ret>>

pipeVars ==
    <<pc, run, validate_main, rss_data, pb_data, all_data, filtered_entries, idx,
      processed_entries, digest, slack_result, gmail_result, calls, filter_steps,
      process_steps, slack_sent, gmail_sent, logFile, emitted>>

schedVars == <<spc, clock, next_run, starts>>

fnVars == <<fn, arg, ret>>

memory ==
    <<rss_data, pb_data, all_data, filtered_entries, idx, processed_entries, digest,
      slack_result, gmail_result>>

history == <<calls, filter_steps, process_steps, slack_sent, gmail_sent>>

Range(f) == {f[i] : i \in DOMAIN f}

\* The state of a process that has just started: nothing collected, nothing sent.
FreshMemory ==
    /\ rss_data = <<>>
    /\ pb_data = <<>>
    /\ all_data = <<>>
    /\ filtered_entries = <<>>
    /\ idx = 1
    /\ processed_entries = <<>>
    /\ digest = <<>>
    /\ slack_result = "unset"
    /\ gmail_result = "unset"
    /\ calls = <<>>
    /\ filter_steps = <<>>
    /\ process_steps = <<>>
    /\ slack_sent = <<>>
    /\ gmail_sent = <<>>

\* scheduler.py is not running, and no function is explored on its own.
SchedulerOff ==
    /\ spc = "off"
    /\ clock = 0
    /\ next_run = 0
    /\ starts = <<>>
    /\ fn = "none"
    /\ arg = <<>>
    /\ ret = <<>>

\* A process that finds the processed entries of the process before it.
NewProcess_keepsProcessed ==
    /\ rss_data' = <<>>
    /\ pb_data' = <<>>
    /\ all_data' = <<>>
    /\ filtered_entries' = <<>>
    /\ idx' = 1
    /\ processed_entries' = processed_entries
    /\ digest' = <<>>
    /\ slack_result' = "unset"
    /\ gmail_result' = "unset"
    /\ calls' = <<>>
    /\ filter_steps' = <<>>
    /\ process_steps' = <<>>
    /\ slack_sent' = <<>>
    /\ gmail_sent' = <<>>

\* A new process starts with fresh memory: nothing of an earlier process is in it.
NewProcess ==
    /\ rss_data' = <<>>
    /\ pb_data' = <<>>
    /\ all_data' = <<>>
    /\ filtered_entries' = <<>>
    /\ idx' = 1
    /\ processed_entries' = <<>>
    /\ digest' = <<>>
    /\ slack_result' = "unset"
    /\ gmail_result' = "unset"
    /\ calls' = <<>>
    /\ filter_steps' = <<>>
    /\ process_steps' = <<>>
    /\ slack_sent' = <<>>
    /\ gmail_sent' = <<>>

Init ==
    /\ pc = "idle"
    /\ run = 0
    /\ validate_main = TRUE
    /\ logFile = {}
    /\ emitted = 0
    /\ FreshMemory
    /\ SchedulerOff

\* A main() that delivers before it formats.
AfterStage_deliverBeforeFormat(stage) ==
    CASE stage = "start"       -> "collect_rss"
      [] stage = "collect_rss" -> "collect_pb"
      [] stage = "collect_pb"  -> "filter"
      [] stage = "filter"      -> "process"
      [] stage = "process"     -> "slack"
      [] stage = "slack"       -> "gmail"
      [] stage = "gmail"       -> "format"
      [] stage = "format"      -> "done"

\* main(): the order of the stages; the stage that follows each one.
AfterStage(stage) ==
    CASE stage = "start"       -> "collect_rss"
      [] stage = "collect_rss" -> "collect_pb"
      [] stage = "collect_pb"  -> "filter"
      [] stage = "filter"      -> "process"
      [] stage = "process"     -> "format"
      [] stage = "format"      -> "slack"
      [] stage = "slack"       -> "gmail"
      [] stage = "gmail"       -> "done"

\* python main.py: a new process.  load_dotenv, setup_logger, the constructors of the
\* six components; a constructor that raises ends the run before any stage.
StartRun ==
    /\ pc \in {"idle", "done", "failed"}
    /\ UNCHANGED <<schedVars, fnVars>>
    /\ run < MaxRuns
    /\ run' = run + 1
    /\ validate_main' \in BOOLEAN
    /\ NewProcess
    /\ UNCHANGED emitted
    /\ \E ok \in BOOLEAN :
        pc' = IF ok THEN AfterStage("start") ELSE "failed"
    /\ UNCHANGED logFile

\* rss_data = rss_parser.collect_feeds()
CollectRSS ==
    /\ pc = "collect_rss"
    /\ UNCHANGED <<schedVars, fnVars>>
    /\ \E batch \in SeqsUpTo(RssItems, Min(MaxRss, MaxEntries - emitted)) :
        /\ rss_data' = [i \in 1..Len(batch) |-> WithRawData(batch[i], run)]
        /\ emitted' = emitted + Len(batch)
    /\ calls' = Append(calls, "collect_feeds")
    /\ pc' = AfterStage("collect_rss")
    /\ UNCHANGED <<logFile, run, validate_main, pb_data, all_data, filtered_entries, idx,
                   processed_entries, digest, slack_result, gmail_result, filter_steps,
                   process_steps, slack_sent, gmail_sent>>

\* pb_data = phantombuster_client.collect_all_data(); all_data = rss_data + pb_data
CollectPB ==
    /\ pc = "collect_pb"
    /\ UNCHANGED <<schedVars, fnVars>>
    /\ \E batch \in SeqsUpTo(PbItems, MaxEntries - emitted) :
        /\ pb_data' = [i \in 1..Len(batch) |-> WithRawData(batch[i], run)]
        /\ emitted' = emitted + Len(batch)
        /\ all_data' = rss_data \o pb_data'
    /\ calls' = Append(calls, "collect_all_data")
    /\ pc' = AfterStage("collect_pb")
    /\ UNCHANGED <<logFile, run, validate_main, rss_data, filtered_entries, idx, processed_entries,
                   digest, slack_result, gmail_result, filter_steps, process_steps,
                   slack_sent, gmail_sent>>

\* process_entries, first half: filtered_entries = self._filter_by_keywords(entries)
FilterByKeywords ==
    /\ pc = "filter"
    /\ UNCHANGED <<schedVars, fnVars>>
    /\ \E pages \in PagesFor(all_data, validate_main) :
        \E r \in {_filter_by_keywords(all_data, validate_main, pages)} :
           /\ filtered_entries' = r.filtered
           /\ filter_steps' = [i \in 1..Len(all_data) |->
                                  [input |-> all_data[i], page |-> pages[i],
                                   did |-> r.steps[i]]]
           \* entry['url'] = canonical_url changes the collected dict itself
           /\ all_data' = [i \in 1..Len(all_data) |-> r.steps[i].entry]
           /\ logFile' = logFile \cup Range(r.log)
           /\ pc' = IF r.filtered = <<>> THEN AfterStage("process") ELSE AfterStage("filter")
    /\ idx' = 1
    /\ calls' = Append(calls, "_filter_by_keywords")
    /\ rss_data' = [i \in DOMAIN rss_data |-> all_data'[i]]
    /\ pb_data' = [i \in DOMAIN pb_data |-> all_data'[Len(rss_data) + i]]
    /\ UNCHANGED <<emitted, run, validate_main, processed_entries, digest, slack_result,
                   gmail_result, process_steps, slack_sent, gmail_sent>>

\* The replies a language-model call can get, NoLlm when the call is not made.
RepliesIf(called, replies) == IF called THEN replies ELSE {NoLlm}

\* process_entries, one iteration of the loop over filtered_entries: the entry is
\* appended when _process_single_entry returns, skipped when it raises.
ProcessEntry ==
    /\ pc = "process"
    /\ UNCHANGED <<schedVars, fnVars>>
    /\ idx <= Len(filtered_entries)
    /\ \E made \in {_process_single_entry(filtered_entries[idx], NoLlm, NoLlm)} :
       \E llmTitle \in RepliesIf(made.title_called, TitleReplies),
          llmSummary \in RepliesIf(made.summary_called, SummaryReplies) :
       \E r \in {_process_single_entry(filtered_entries[idx], llmTitle, llmSummary)} :
           /\ processed_entries' = IF r.raised THEN processed_entries
                                   ELSE Append(processed_entries, r.entry)
           /\ process_steps' = Append(process_steps,
                                      [raised |-> r.raised, title_called |-> r.title_called,
                                       summary_called |-> r.summary_called,
                                       llmTitle |-> llmTitle, llmSummary |-> llmSummary])
    /\ idx' = idx + 1
    /\ calls' = Append(calls, "_process_single_entry")
    /\ pc' = IF idx' > Len(filtered_entries) THEN AfterStage("process") ELSE "process"
    /\ UNCHANGED <<logFile, emitted, run, validate_main, rss_data, pb_data, all_data, filtered_entries,
                   digest, slack_result, gmail_result, filter_steps, slack_sent, gmail_sent>>

\* digest = digest_formatter.format_digest(processed_data)
FormatDigest ==
    /\ pc = "format"
    /\ UNCHANGED <<schedVars, fnVars>>
    /\ digest' = <<format_digest(processed_entries)>>
    /\ calls' = Append(calls, "format_digest")
    /\ pc' = AfterStage("format")
    /\ UNCHANGED <<logFile, emitted, run, validate_main, rss_data, pb_data, all_data, filtered_entries, idx,
                   processed_entries, slack_result, gmail_result, filter_steps,
                   process_steps, slack_sent, gmail_sent>>

\* A send_digest that lets a failed post propagate to main().
SlackSendDigest_propagates(outcome) ==
    [raised |-> outcome # "ok", result |-> "True"]

\* SlackSender.send_digest: what the call does to its caller for each way the post
\* can end ("ok", "api_error": SlackApiError, "exception": anything else).
SlackSendDigest(outcome) ==
    [raised |-> FALSE, result |-> IF outcome = "ok" THEN "True" ELSE "False"]

\* slack_result = slack_sender.send_digest(digest)
SendSlack ==
    /\ pc = "slack"
    /\ UNCHANGED <<schedVars, fnVars>>
    /\ \E outcome \in {"ok", "api_error", "exception"} :
        \E r \in {SlackSendDigest(outcome)} :
           /\ slack_result' = IF r.raised THEN slack_result ELSE r.result
           /\ pc' = IF r.raised THEN "failed" ELSE AfterStage("slack")
    /\ slack_sent' = Append(slack_sent, digest)
    /\ calls' = Append(calls, "slack_send_digest")
    /\ UNCHANGED <<logFile, emitted, run, validate_main, rss_data, pb_data, all_data, filtered_entries, idx,
                   processed_entries, digest, gmail_result, filter_steps, process_steps,
                   gmail_sent>>

\* GmailSender.send_digest: every exception is caught and answered with False.
GmailSendDigest(outcome) ==
    [raised |-> FALSE, result |-> IF outcome = "ok" THEN "True" ELSE "False"]

\* gmail_result = gmail_sender.send_digest(digest)
SendGmail ==
    /\ pc = "gmail"
    /\ UNCHANGED <<schedVars, fnVars>>
    /\ \E outcome \in {"ok", "exception"} :
        \E r \in {GmailSendDigest(outcome)} :
           /\ gmail_result' = IF r.raised THEN gmail_result ELSE r.result
           /\ pc' = IF r.raised THEN "failed" ELSE AfterStage("gmail")
    /\ gmail_sent' = Append(gmail_sent, digest)
    /\ calls' = Append(calls, "gmail_send_digest")
    /\ UNCHANGED <<logFile, emitted, run, validate_main, rss_data, pb_data, all_data, filtered_entries, idx,
                   processed_entries, digest, slack_result, filter_steps, process_steps,
                   slack_sent>>

Next ==
    \/ StartRun
    \/ CollectRSS
    \/ CollectPB
    \/ FilterByKeywords
    \/ ProcessEntry
    \/ FormatDigest
    \/ SendSlack
    \/ SendGmail

\* Runs of main.py, one after the other.
Spec == Init /\ [][Next]_vars

(***************************************************************************)
(* _filter_by_keywords on its own, called with any batch of entries.       *)
(***************************************************************************)
InitFilter ==
    /\ pc = "filter"
    /\ run = 1
    /\ validate_main \in BOOLEAN
    /\ logFile = {}
    /\ emitted = 0
    /\ \E batch \in SeqsUpTo(FilterInputs, MaxBatch) :
        all_data = [i \in 1..Len(batch) |-> WithRawData(batch[i], 1)]
    /\ rss_data = <<>>
    /\ pb_data = <<>>
    /\ filtered_entries = <<>>
    /\ idx = 1
    /\ processed_entries = <<>>
    /\ digest = <<>>
    /\ slack_result = "unset"
    /\ gmail_result = "unset"
    /\ calls = <<>>
    /\ filter_steps = <<>>
    /\ process_steps = <<>>
    /\ slack_sent = <<>>
    /\ gmail_sent = <<>>
    /\ SchedulerOff

SpecFilter == InitFilter /\ [][FilterByKeywords]_vars

(***************************************************************************)
(* scheduler.py.  The clock counts slots, SlotsPerDay to a day; the slot   *)
(* AtSlot of a day is the one 09:45 falls in.  A run of main.py is a child *)
(* process, of which only the start and the end matter here.               *)
(***************************************************************************)
AtSlot == 1

Day(t) == t \div SlotsPerDay

SlotOfDay(t) == t % SlotsPerDay

\* every().day.at("09:45"): the first 09:45 after t.
NextRunAfter(t) ==
    IF SlotOfDay(t) < AtSlot
    THEN Day(t) * SlotsPerDay + AtSlot
    ELSE (Day(t) + 1) * SlotsPerDay + AtSlot

\* A call that starts the child and returns at once.
subprocess_Popen(at, duration) ==
    [returns_at |-> at, child_until |-> at + duration]

\* subprocess.run(['python', 'main.py'], ...) returns when the child has ended.
subprocess_run(at, duration) ==
    [returns_at |-> at + duration, child_until |-> at + duration]

InitSched ==
    /\ spc = "boot"
    /\ clock \in 0..(SlotsPerDay - 1)
    /\ next_run = 0
    /\ starts = <<>>
    /\ fn = "none"
    /\ arg = <<>>
    /\ ret = <<>>
    /\ pc = "idle"
    /\ run = 0
    /\ validate_main = TRUE
    /\ logFile = {}
    /\ emitted = 0
    /\ FreshMemory

\* schedule.every().day.at("09:45").do(run_aggregator)
SchedulerBoot ==
    /\ spc = "boot"
    /\ next_run' = NextRunAfter(clock)
    /\ spc' = "pending"
    /\ UNCHANGED <<clock, starts>>
    /\ UNCHANGED <<pipeVars, fnVars>>

\* schedule.run_pending(): the job runs when it is due, run_aggregator returns when
\* subprocess.run does (or raises), and the job is scheduled again from that moment.
RunPending ==
    /\ spc = "pending"
    /\ IF clock >= next_run
       THEN \E duration \in 0..MaxDuration :
               \E r \in {subprocess_run(clock, duration)} :
                  /\ starts' = Append(starts, [at |-> clock, until |-> r.child_until])
                  /\ clock' = r.returns_at
                  /\ next_run' = NextRunAfter(r.returns_at)
       ELSE UNCHANGED <<clock, next_run, starts>>
    /\ spc' = "sleeping"
    /\ UNCHANGED <<pipeVars, fnVars>>

\* time.sleep(60)
Sleep ==
    /\ spc = "sleeping"
    /\ clock < MaxDays * SlotsPerDay
    /\ clock' = clock + 1
    /\ spc' = "pending"
    /\ UNCHANGED <<next_run, starts>>
    /\ UNCHANGED <<pipeVars, fnVars>>

NextSched ==
    \/ SchedulerBoot
    \/ RunPending
    \/ Sleep

SpecSched == InitSched /\ [][NextSched]_vars

(***************************************************************************)
(* Properties.                                                             *)
(***************************************************************************)
StageOrder ==
    <<"collect_feeds", "collect_all_data", "_filter_by_keywords", "_process_single_entry",
      "format_digest", "slack_send_digest", "gmail_send_digest">>

Rank(call) == CHOOSE k \in DOMAIN StageOrder : StageOrder[k] = call

CountOf(call) == Cardinality({i \in DOMAIN calls : calls[i] = call})

\* C1: in a run the stages are called in the order RSS collection, PhantomBuster
\* collection, the filter over the whole batch, one processing call per kept entry,
\* format_digest, Slack, Gmail; every stage but the per-entry processing is called at
\* most once, none is skipped, and a delivery is called only after format_digest
\* returned a digest.
C1_StagesInOrder ==
    /\ calls # <<>> => calls[1] = "collect_feeds"
    /\ \A i \in 1..(Len(calls) - 1) :
          /\ Rank(calls[i]) <= Rank(calls[i + 1])
          /\ Rank(calls[i]) = Rank(calls[i + 1]) => calls[i] = "_process_single_entry"
          /\ Rank(calls[i + 1]) - Rank(calls[i])
                <= (IF calls[i] = "_filter_by_keywords" THEN 2 ELSE 1)
    /\ CountOf("_process_single_entry") <= Len(filtered_entries)
    /\ CountOf("format_digest") = 1 => CountOf("_process_single_entry") = Len(filtered_entries)
    /\ \A i \in DOMAIN calls :
          calls[i] \in {"slack_send_digest", "gmail_send_digest"}
             => digest # <<>> /\ \E j \in 1..(i - 1) : calls[j] = "format_digest"

\* A run that went through every stage and processed two entries.
C1_Witness ==
    /\ pc = "done"
    /\ calls = <<"collect_feeds", "collect_all_data", "_filter_by_keywords",
                 "_process_single_entry", "_process_single_entry", "format_digest",
                 "slack_send_digest", "gmail_send_digest">>

\* C2: once format_digest has returned a digest the run does not fail; Slack is handed
\* that digest exactly once, then Gmail is handed the same digest exactly once,
\* whatever the Slack call answered, also when the digest is empty.
C2_BothDeliveries ==
    /\ Len(slack_sent) <= 1
    /\ Len(gmail_sent) <= 1
    /\ slack_sent # <<>> => digest # <<>> /\ slack_sent = <<digest>>
    /\ gmail_sent # <<>> => gmail_sent = slack_sent
    /\ digest # <<>> => pc \in {"slack", "gmail", "done"}
    /\ pc = "slack" => slack_sent = <<>> /\ gmail_sent = <<>>
    /\ pc = "gmail" => Len(slack_sent) = 1 /\ gmail_sent = <<>>
    /\ pc = "done" => Len(slack_sent) = 1 /\ Len(gmail_sent) = 1

\* An empty digest, Slack failed, Gmail was still handed the digest.
C2_Witness ==
    /\ pc = "done"
    /\ digest # <<>>
    /\ digest[1].total_entries = 0
    /\ slack_result = "False"
    /\ gmail_sent = <<digest>>

\* C3: the digest's total_entries is the length of its entries list and the number of
\* entries format_digest was given; it is 0 exactly when it was given none.
C3_TotalEntries ==
    digest # <<>> =>
        /\ digest[1].total_entries = Len(digest[1].entries)
        /\ Len(digest[1].entries) = Len(processed_entries)
        /\ digest[1].total_entries = 0 <=> processed_entries = <<>>

\* A digest of two different entries.
C3_Witness ==
    /\ digest # <<>>
    /\ digest[1].total_entries = 2
    /\ digest[1].entries[1] # digest[1].entries[2]

\* The text the keyword check looks at, without lower-casing.
RawText(entry) ==
    Format(Get(entry, "title", <<>>)) \o <<" ">> \o Format(Get(entry, "description", <<>>))

\* C4: every entry _filter_by_keywords returns has at least one keyword, compared
\* without regard to case, in the text made of its title and its description.
C4_KeptHaveKeyword ==
    \A i \in DOMAIN filtered_entries :
        \E k \in DOMAIN keywords :
            Contains(Lower(RawText(filtered_entries[i])), Lower(keywords[k]))

\* The filter kept an entry that matches a keyword only when case is ignored.
C4_Witness ==
    /\ pc # "filter"
    /\ \E i \in DOMAIN filtered_entries :
          ~\E k \in DOMAIN keywords : Contains(RawText(filtered_entries[i]), keywords[k])

\* The entry is an X post that mentions @LeaveDelaware.
Excluded(entry) ==
    is_x_post(entry) /\ Contains(Lower(RawText(entry)), s_at_leavedelaware)

\* The three conditions of the validation, for the entry as it was passed in.
FetchConditions(entry) ==
    /\ ~Excluded(entry)
    /\ HasKeyword(Lower(RawText(entry)))
    /\ Contains(LowerOrEmpty(entry, "source"), s_rss)
    /\ validate_main

\* C5: a page is fetched for an entry only if the entry passed the keyword check, its
\* source contains 'rss' and ARTICLE_VALIDATE_MAIN_CONTENT is not '0'; when one of
\* these fails nothing is fetched, the entry is left as it is, and it is kept exactly
\* when it passed the X-post exclusion and the keyword check.
C5_FetchOnlyWhen ==
    \A i \in DOMAIN filter_steps :
        /\ filter_steps[i].did.fetched => FetchConditions(filter_steps[i].input)
        /\ ~FetchConditions(filter_steps[i].input) =>
              /\ ~filter_steps[i].did.validated
              /\ ~filter_steps[i].did.fetched
              /\ filter_steps[i].page = NoPage
              /\ filter_steps[i].did.entry = filter_steps[i].input
              /\ filter_steps[i].did.keep <=>
                    (~Excluded(filter_steps[i].input)
                     /\ HasKeyword(Lower(RawText(filter_steps[i].input))))

\* One batch with an RSS entry whose page was fetched and a LinkedIn entry that was
\* kept without a fetch.
C5_Witness ==
    /\ \E i \in DOMAIN filter_steps : filter_steps[i].did.fetched
    /\ \E i \in DOMAIN filter_steps :
          /\ ~filter_steps[i].did.fetched
          /\ filter_steps[i].did.keep
          /\ filter_steps[i].input.source = src_LinkedIn

EmptyUrl(entry) == Get(entry, "url", NoneVal) \in {<<>>, NoneVal}

\* C6 as stated: a fetch that fails keeps the entry unchanged, and validation drops an
\* entry only when its page was fetched successfully and the main text has no keyword.
C6_Original ==
    \A i \in DOMAIN filter_steps :
        filter_steps[i].did.validated =>
            /\ filter_steps[i].page.kind \in {"status", "exception"} =>
                  filter_steps[i].did.keep /\ filter_steps[i].did.entry = filter_steps[i].input
            /\ ~filter_steps[i].did.keep =>
                  /\ filter_steps[i].did.fetched
                  /\ filter_steps[i].page.kind = "ok"
                  /\ ~HasKeyword(Lower(filter_steps[i].page.main_text))

\* C6: validation fails open: when the fetch is answered with a non-2xx status or
\* anything raises, the entry is kept with its URL unchanged.  Validation drops an
\* entry only when its URL is empty (nothing is fetched then) or its page was fetched
\* successfully and no keyword occurs in the extracted main text.
C6_FailOpen ==
    \A i \in DOMAIN filter_steps :
        filter_steps[i].did.validated =>
            /\ filter_steps[i].page.kind \in {"status", "exception"} =>
                  filter_steps[i].did.keep /\ filter_steps[i].did.entry = filter_steps[i].input
            /\ ~filter_steps[i].did.keep =>
                  \/ /\ EmptyUrl(filter_steps[i].input)
                     /\ ~filter_steps[i].did.fetched
                     /\ filter_steps[i].page = NoPage
                  \/ /\ ~EmptyUrl(filter_steps[i].input)
                     /\ filter_steps[i].did.fetched
                     /\ filter_steps[i].page.kind = "ok"
                     /\ ~HasKeyword(Lower(filter_steps[i].page.main_text))

\* One batch with an entry kept after a non-2xx answer and an entry with an empty URL
\* dropped without a fetch.
C6_Witness ==
    /\ \E i \in DOMAIN filter_steps :
          /\ filter_steps[i].did.validated
          /\ filter_steps[i].page.kind = "status"
          /\ filter_steps[i].did.keep
    /\ \E i \in DOMAIN filter_steps :
          /\ filter_steps[i].did.validated
          /\ EmptyUrl(filter_steps[i].input)
          /\ ~filter_steps[i].did.keep

\* C7: nothing is deduplicated: every collected entry goes through the filter, every
\* entry the filter keeps is processed, and the digest counts exactly the entries
\* whose processing did not raise; equal entries are counted each.
C7_NoDedup ==
    digest # <<>> =>
        /\ Len(filter_steps) = Len(all_data)
        /\ Len(filtered_entries)
              = Cardinality({i \in DOMAIN filter_steps : filter_steps[i].did.keep})
        /\ Len(process_steps) = Len(filtered_entries)
        /\ digest[1].total_entries
              = Cardinality({j \in DOMAIN process_steps : ~process_steps[j].raised})

\* Two equal entries were collected and both are in the digest.
C7_Witness ==
    /\ digest # <<>>
    /\ Len(all_data) = 2
    /\ all_data[1] = all_data[2]
    /\ digest[1].total_entries = 2
    /\ digest[1].entries[1] = digest[1].entries[2]

\* The titles and URLs of the entries the collectors can emit.
EntryContents ==
    UNION {{e.title, e.url} : e \in RssItems \cup PbItems}

\* C8 as stated: no title, text or URL of a collected entry is written to a file.
C8_Original ==
    \A l \in logFile : l.arg \notin EntryContents

LogMessagesWithContent ==
    {"Skipping X post mentioning @LeaveDelaware", "Fetch failed for URL",
     "Main-content validation failed for URL"}

DigestIsOfRun(d, r) ==
    \A i \in DOMAIN d.entries : d.entries[i].original_entry.raw_data.run = r

\* C8: the pipeline keeps no store of entries: a process starts with nothing
\* collected, and everything it holds, filters, processes, formats and delivers was
\* collected in its own run.  Text of an entry reaches one file, the day's log: the
\* lines of it that carry such text are the title of a skipped X post and the URL of
\* an article whose fetch or validation failed.
C8_RunLocal ==
    /\ pc = "collect_rss" => FreshMemory
    /\ \A i \in DOMAIN all_data : all_data[i].raw_data.run = run
    /\ \A i \in DOMAIN filtered_entries : filtered_entries[i].raw_data.run = run
    /\ \A i \in DOMAIN processed_entries :
          processed_entries[i].original_entry.raw_data.run = run
    /\ \A i \in DOMAIN digest : DigestIsOfRun(digest[i], run)
    /\ \A i \in DOMAIN slack_sent : \A j \in DOMAIN slack_sent[i] :
          DigestIsOfRun(slack_sent[i][j], run)
    /\ \A i \in DOMAIN gmail_sent : \A j \in DOMAIN gmail_sent[i] :
          DigestIsOfRun(gmail_sent[i][j], run)
    /\ \A l \in logFile : l.msg \in LogMessagesWithContent

\* The second run delivered a digest of its one entry; the log holds a line of the
\* first run, which collected the other entry.
C8_Witness ==
    /\ run = 2
    /\ pc = "done"
    /\ emitted = 2
    /\ Len(all_data) = 1
    /\ all_data[1].source = src_LinkedIn
    /\ digest[1].total_entries = 1
    /\ logFile # {}

\* C9: the scheduler starts a run only in the 09:45 slot of a day, starts at most one
\* run on a calendar day, and starts no run before the run it started before has
\* ended.
C9_OneRunADay ==
    /\ \A i \in DOMAIN starts : SlotOfDay(starts[i].at) = AtSlot
    /\ \A i, j \in DOMAIN starts :
          i < j => /\ Day(starts[i].at) < Day(starts[j].at)
                   /\ starts[i].until <= starts[j].at

\* A run that took longer than a day, and the next run started after it.
C9_Witness ==
    \E i \in DOMAIN starts :
        /\ starts[i].until - starts[i].at > SlotsPerDay
        /\ i < Len(starts)

DigestKeys == {"tag", "title", "summary", "url", "source", "published_date", "author"}

\* A Python str, as opposed to None or a list.
IsStr(v) == v # NoneVal /\ v # NonStr

\* C10: every entry of the digest has the keys tag, title, summary, url, source,
\* published_date and author, its published_date is a string and its tag is one of
\* 'X Post', 'LinkedIn', 'Article'; so has an RSS entry, which is collected without
\* an author.
C10_DigestEntryShape ==
    \A d \in DOMAIN digest : \A i \in DOMAIN digest[d].entries :
        /\ DigestKeys \subseteq DOMAIN digest[d].entries[i]
        /\ IsStr(digest[d].entries[i].published_date)
        /\ digest[d].entries[i].tag \in {tag_X_Post, tag_LinkedIn, tag_Article}

\* The digest has an RSS entry, collected without author, whose author is ''.
C10_Witness ==
    /\ digest # <<>>
    /\ \E i \in DOMAIN digest[1].entries :
          /\ "author" \notin DOMAIN digest[1].entries[i].original_entry
          /\ digest[1].entries[i].author = <<>>
          /\ digest[1].entries[i].tag = tag_Article

(***************************************************************************)
(* _normalize_generic_url on its own, called with any link.                *)
(***************************************************************************)
\* The state outside the function explored: no run of main.py, no scheduler.
NothingRuns ==
    /\ pc = "idle"
    /\ run = 0
    /\ validate_main = TRUE
    /\ logFile = {}
    /\ emitted = 0
    /\ FreshMemory
    /\ spc = "off"
    /\ clock = 0
    /\ next_run = 0
    /\ starts = <<>>

InitUrl ==
    /\ fn = "_normalize_generic_url"
    /\ arg \in UrlInputs
    /\ ret = <<>>
    /\ NothingRuns

NormalizeUrl ==
    /\ fn = "_normalize_generic_url"
    /\ ret = <<>>
    /\ ret' = <<_normalize_generic_url(arg)>>
    /\ UNCHANGED <<fn, arg, pipeVars, schedVars>>

SpecUrl == InitUrl /\ [][NormalizeUrl]_vars

\* x parses as a Google redirect link: host ending in google.com, path starting
\* /url, a non-empty q or url parameter.
IsRedirectLink(x) ==
    /\ EndsWith(urlparse(x).netloc, s_google_com)
    /\ StartsWith(urlparse(x).path, s_url_path)
    /\ (QsValues(urlparse(x).query, s_q) \o QsValues(urlparse(x).query, s_url)) # <<>>

\* The decoded target of the redirect link x: its q parameter, else its url parameter.
DecodedTarget(x) ==
    unquote(Head(QsValues(urlparse(x).query, s_q) \o QsValues(urlparse(x).query, s_url)))

WithScheme(x) ==
    IF urlparse(x).scheme = <<>> THEN s_https_prefix \o LStrip(x, {"/"}) ELSE x

\* urlparse rejects x, or the target of x when x is a redirect link.
Rejected(x) ==
    \/ UrlparseRaises(x)
    \/ IsRedirectLink(x) /\ UrlparseRaises(DecodedTarget(x))

Absent == <<"(absent)">>

Field(key, value) == IF key = Absent \/ value = Absent THEN <<>> ELSE <<<<key, value>>>>

TweetUrlKeys == {k_tweetUrl, k_url, k_link, k_Tweet_Link}

TweetUrlValues == {<<>>, v_tw_status, v_tw_mobile, v_tw_web, v_tw_profile, v_tw_wrapped}

TweetRows ==
    {Field(k, u) \o Field(k_handle, h) \o Field(k_tweetId, i) :
        k \in TweetUrlKeys, u \in TweetUrlValues,
        h \in {Absent, v_handle_at, v_handle_other},
        i \in {Absent, v_id_digits, v_id_other}}

InitTweetUrl ==
    /\ fn = "tweet_url"
    /\ arg \in TweetRows
    /\ ret = <<>>
    /\ NothingRuns

TwitterEntryUrl ==
    /\ fn = "tweet_url"
    /\ ret = <<>>
    /\ ret' = <<TweetUrl(arg)>>
    /\ UNCHANGED <<fn, arg, pipeVars, schedVars>>

SpecTweetUrl == InitTweetUrl /\ [][TwitterEntryUrl]_vars

v_x_bob_123 == <<"h","t","t","p","s",":","/","/","x",".","c","o","m","/","b","o","b","/","s","t","a","t","u","s","/","1","2","3">>

TweetLinkField(row) == _get_caseinsensitive_field(row, TweetLinkCandidates)

\* The URL the row carries: its tweet-link field, else the first of tweetUrl, postUrl,
\* url and link that is not empty.
RowUrl(row) ==
    IF TweetLinkField(row) # <<>> THEN TweetLinkField(row) ELSE FirstTruthy(row, UrlKeys)

\* The tweet id the row carries: the one in its URL, else its numeric id field,
\* <<>> when it carries none.
CarriedId(row) ==
    IF TweetIdIn(RowUrl(row)) # <<>> THEN TweetIdIn(RowUrl(row))
    ELSE IF IsDigits(Strip(FirstTruthy(row, RowIdKeys))) THEN Strip(FirstTruthy(row, RowIdKeys))
    ELSE <<>>

\* C12 as stated: whenever the row carries a tweet id, in its URL or in a numeric id
\* field, the entry's URL is the canonical x.com permalink of that id and the row's
\* username.
C12_Original ==
    \A i \in DOMAIN ret :
        CarriedId(arg) # <<>> => ret[i] = CanonicalTweetUrl(UsernameOf(arg), CarriedId(arg))

\* C12, what the code gives: a row with a tweet-link field gets that link with a
\* scheme and the x.com domain, not rebuilt; a row with no URL at all gets an empty
\* URL whatever its id field holds; a row without a tweet-link field and with a URL
\* gets the canonical permalink whenever it carries a tweet id.
C12_CanonicalWhenRebuilt ==
    \A i \in DOMAIN ret :
        /\ TweetLinkField(arg) # <<>> =>
               ret[i] = TwitterDomains(LinkScheme(Strip(TweetLinkField(arg))))
        /\ RowUrl(arg) = <<>> => ret[i] = <<>>
        /\ TweetLinkField(arg) = <<>> /\ RowUrl(arg) # <<>> /\ CarriedId(arg) # <<>> =>
               ret[i] = CanonicalTweetUrl(UsernameOf(arg), CarriedId(arg))

\* A mobile link in the url field of a row with a handle was rebuilt as the canonical
\* permalink.
C12_Witness ==
    /\ arg = Field(k_url, v_tw_mobile) \o Field(k_handle, v_handle_at)
    /\ ret = <<v_x_bob_123>>

(***************************************************************************)
(* datetime.  A value is a record of the calendar fields; aware says       *)
(* whether it carries a time zone.                                         *)
(***************************************************************************)
MaxDigest == 2

DigitChars == <<"0", "1", "2", "3", "4", "5", "6", "7", "8", "9">>

\* %02d
Pad2(n) == <<DigitChars[(n \div 10) + 1], DigitChars[(n % 10) + 1]>>

\* %04d
Pad4(n) == Pad2(n \div 100) \o Pad2(n % 100)

\* %06d
Pad6(n) == Pad2(n \div 10000) \o Pad4(n % 10000)

datetime(year, month, day, hour, minute, second) ==
    [year |-> year, month |-> month, day |-> day, hour |-> hour, minute |-> minute,
     second |-> second, microsecond |-> 0, aware |-> FALSE]

\* date.toordinal() - 719163: days from 1970-01-01 to the day, in the proleptic
\* Gregorian calendar.
DaysFromCivil(year, month, day) ==
    LET y == IF month <= 2 THEN year - 1 ELSE year
        era == y \div 400
        yoe == y - era * 400
        mp == (month + 9) % 12
        doy == (153 * mp + 2) \div 5 + day - 1
        doe == yoe * 365 + yoe \div 4 - yoe \div 100 + doy
    IN era * 146097 + doe - 719468

\* The year, month and day of the day that is z days after 1970-01-01.
CivilFromDays(z) ==
    LET zz == z + 719468
        era == zz \div 146097
        doe == zz - era * 146097
        yoe == (doe - doe \div 1460 + doe \div 36524 - doe \div 146096) \div 365
        doy == doe - (365 * yoe + yoe \div 4 - yoe \div 100)
        mp == (5 * doy + 2) \div 153
        month == IF mp < 10 THEN mp + 3 ELSE mp - 9
    IN [year  |-> yoe + era * 400 + (IF month <= 2 THEN 1 ELSE 0),
        month |-> month,
        day   |-> doy - (153 * mp + 2) \div 5 + 1]

DaysInMonth(year, month) ==
    IF month = 12 THEN 31
    ELSE DaysFromCivil(year, month + 1, 1) - DaysFromCivil(year, month, 1)

\* The day number and the second of the day, and back.
DayOf(t) == DaysFromCivil(t.year, t.month, t.day)

SecondOfDay(t) == t.hour * 3600 + t.minute * 60 + t.second

FromDaySecond(days, secs) ==
    [year        |-> CivilFromDays(days).year,
     month       |-> CivilFromDays(days).month,
     day         |-> CivilFromDays(days).day,
     hour        |-> secs \div 3600,
     minute      |-> (secs % 3600) \div 60,
     second      |-> secs % 60,
     microsecond |-> 0,
     aware       |-> FALSE]

\* t + timedelta(hours=h), for a t without microseconds
PlusHours(t, h) ==
    FromDaySecond(DayOf(t) + ((SecondOfDay(t) + h * 3600) \div 86400),
                  (SecondOfDay(t) + h * 3600) % 86400)

\* t - timedelta(hours=h)
MinusHours(t, h) == PlusHours(t, 0 - h)

\* a < b on two datetimes without time zone
DtLess(a, b) ==
    \/ DayOf(a) < DayOf(b)
    \/ DayOf(a) = DayOf(b) /\ SecondOfDay(a) < SecondOfDay(b)
    \/ DayOf(a) = DayOf(b) /\ SecondOfDay(a) = SecondOfDay(b) /\ a.microsecond < b.microsecond

\* datetime.isoformat(): YYYY-MM-DDTHH:MM:SS, and .ffffff when there are microseconds
isoformat(t) ==
    Pad4(t.year) \o <<"-">> \o Pad2(t.month) \o <<"-">> \o Pad2(t.day) \o <<"T">>
        \o Pad2(t.hour) \o <<":">> \o Pad2(t.minute) \o <<":">> \o Pad2(t.second)
        \o (IF t.microsecond = 0 THEN <<>> ELSE <<".">> \o Pad6(t.microsecond))

\* datetime.date().isoformat(): YYYY-MM-DD
date_isoformat(t) == Pad4(t.year) \o <<"-">> \o Pad2(t.month) \o <<"-">> \o Pad2(t.day)

\* Whole hours from 1970-01-01 to t: the order of datetimes that are on the hour.
HoursOf(t) == DayOf(t) * 24 + t.hour

\* datetime.now(): the wall-clock time of the host, without time zone, when the time
\* is now in UTC and the host's clock is tz hours ahead of UTC.
datetime_now(now, tz) == PlusHours(now, tz)

\* The time of a post that has none.
NoTime == [year |-> 0]

PostTimes == {datetime(2026, 10, d, h, 0, 0) : d \in {30, 31}, h \in {9, 20}}

\* published_date as each collector writes it for a post published at t.
PublishedDateOf(source, t) ==
    IF t = NoTime THEN <<>>
    ELSE IF Contains(Lower(source), s_twitter) THEN date_isoformat(t)
    ELSE isoformat(t)

\* A processed entry of a post published at t; raw_data keeps the time.
DatedEntry(source, t) ==
    [tag            |-> _determine_tag([source |-> source]),
     title          |-> t_tax_news,
     summary        |-> IF Contains(Lower(source), s_twitter) THEN <<>> ELSE t_sunny,
     url            |-> u_plain,
     source         |-> source,
     published_date |-> PublishedDateOf(source, t),
     author         |-> <<>>,
     original_entry |-> [source |-> source, published_date |-> PublishedDateOf(source, t),
                         raw_data |-> t]]

DatedEntries ==
    {DatedEntry(s, t) : s \in {src_RSS, src_Twitter_search, src_LinkedIn}, t \in PostTimes}
        \cup {DatedEntry(src_RSS, NoTime)}

InitDigest ==
    /\ fn = "format_digest"
    /\ arg \in SeqsUpTo(DatedEntries, MaxDigest)
    /\ ret = <<>>
    /\ NothingRuns

FormatDigestOf ==
    /\ fn = "format_digest"
    /\ ret = <<>>
    /\ ret' = <<format_digest(arg)>>
    /\ UNCHANGED <<fn, arg, pipeVars, schedVars>>

SpecDigest == InitDigest /\ [][FormatDigestOf]_vars

PostedAt(e) == e.original_entry.raw_data

Later(a, b) ==
    /\ PostedAt(a) # NoTime
    /\ PostedAt(b) # NoTime
    /\ HoursOf(PostedAt(a)) > HoursOf(PostedAt(b))

Mentions(entry) == Contains(Lower(RawText(entry)), s_at_leavedelaware)

\* The entry is an X post by its source label or its tag.
FromX(entry) ==
    \/ Contains(Lower(Get(entry, "source", <<>>)), s_twitter)
    \/ Contains(Lower(Get(entry, "source", <<>>)), s_x_post)
    \/ Lower(Get(entry, "tag", <<>>)) = s_x_post

\* C14: an X post that mentions @LeaveDelaware is not in the output of
\* _filter_by_keywords although its text matches a keyword; an entry of another
\* source with the mention is kept unless the validation of its page drops it.
C14_MentionsExcluded ==
    /\ \A i \in DOMAIN filtered_entries :
           ~(FromX(filtered_entries[i]) /\ Mentions(filtered_entries[i]))
    /\ \A i \in DOMAIN filter_steps :
           Mentions(filter_steps[i].input) =>
               /\ HasKeyword(Lower(RawText(filter_steps[i].input)))
               /\ FromX(filter_steps[i].input) => ~filter_steps[i].did.keep
               /\ ~FromX(filter_steps[i].input) /\ ~filter_steps[i].did.validated =>
                      filter_steps[i].did.keep

\* A tweet that mentions @LeaveDelaware was dropped and the LinkedIn post with the
\* same text, next in the batch, was kept.
C14_Witness ==
    /\ Len(filter_steps) = 2
    /\ FromX(filter_steps[1].input) /\ Mentions(filter_steps[1].input)
    /\ filter_steps[2].input.source = src_LinkedIn
    /\ RawText(filter_steps[2].input) = RawText(filter_steps[1].input)
    /\ Len(filtered_entries) = 1
    /\ filtered_entries[1].source = src_LinkedIn

(***************************************************************************)
(* The loop of process_entries on its own, over any batch of entries that   *)
(* passed the filter: an article with a good title, one with a short title  *)
(* and a long description, one without title, a tweet, and a tweet whose    *)
(* text is not a string.                                                    *)
(***************************************************************************)
t_long == <<"D","e","l","a","w","a","r","e"," ","c","o","u","r","t","s"," ","w","e","i","g","h"," ","a"," ","n","e","w"," ","f","r","a","n","c","h","i","s","e"," ","t","a","x"," ","r","u","l","e","."," ","M","o","r","e"," ","f","i","r","m","s"," ","a","r","e"," ","s","a","i","d"," ","t","o"," ","f","o","l","l","o","w","."," ","M","o","r","e"," ","f","i","r","m","s"," ","a","r","e"," ","s","a","i","d"," ","t","o"," ","f","o","l","l","o","w","."," ","M","o","r","e"," ","f","i","r","m","s"," ","a","r","e"," ","s","a","i","d"," ","t","o"," ","f","o","l","l","o","w","."," ","M","o","r","e"," ","f","i","r","m","s"," ","a","r","e"," ","s","a","i","d"," ","t","o"," ","f","o","l","l","o","w","."," ","M","o","r","e"," ","f","i","r","m","s"," ","a","r","e"," ","s","a","i","d"," ","t","o"," ","f","o","l","l","o","w","."," ","M","o","r","e"," ","f","i","r","m","s"," ","a","r","e"," ","s","a","i","d"," ","t","o"," ","f","o","l","l","o","w",".">>

MaxProcess == 2

ProcessInputs ==
    {RssItem(t_leave, t_html, u_redirect, d_rss_early),
     RssItem(t_tax_news, t_long, u_plain, d_rss_late),
     RssItem(<<>>, t_taxes_upper, u_plain, d_rss_late),
     PbItem(src_Twitter_hashtag, t_tweet, u_tweet, d_tweet, a_bob),
     PbItem(src_Twitter_hashtag, NonStr, u_tweet, d_tweet, a_bob)}

InitProcess ==
    /\ pc = "process"
    /\ run = 1
    /\ validate_main = TRUE
    /\ logFile = {}
    /\ emitted = 0
    /\ \E batch \in SeqsUpTo(ProcessInputs, MaxProcess) :
        /\ batch # <<>>
        /\ filtered_entries = [i \in 1..Len(batch) |-> WithRawData(batch[i], 1)]
    /\ all_data = filtered_entries
    /\ rss_data = <<>>
    /\ pb_data = <<>>
    /\ idx = 1
    /\ processed_entries = <<>>
    /\ digest = <<>>
    /\ slack_result = "unset"
    /\ gmail_result = "unset"
    /\ calls = <<>>
    /\ filter_steps = <<>>
    /\ process_steps = <<>>
    /\ slack_sent = <<>>
    /\ gmail_sent = <<>>
    /\ SchedulerOff

SpecProcess == InitProcess /\ [][ProcessEntry]_vars

\* Of the first i entries, how many _process_single_entry returned for.
Returned(i) == Cardinality({j \in 1..i : ~process_steps[j].raised})

\* Calls of _generate_summary made for the i-th entry.
SummaryCalls(i) == IF process_steps[i].summary_called THEN 1 ELSE 0

\* C15: a processed entry tagged X Post has an empty summary and _generate_summary
\* was not called for it; for a processed entry with any other tag it was called
\* exactly once.
C15_NoSummaryForXPosts ==
    /\ Len(processed_entries) = Returned(Len(process_steps))
    /\ \A i \in DOMAIN process_steps :
           ~process_steps[i].raised =>
               IF processed_entries[Returned(i)].tag = tag_X_Post
               THEN /\ processed_entries[Returned(i)].summary = <<>>
                    /\ SummaryCalls(i) = 0
                    /\ process_steps[i].llmSummary = NoLlm
               ELSE /\ SummaryCalls(i) = 1
                    /\ process_steps[i].llmSummary \in SummaryReplies

\* A tweet was processed without a summary and the article after it with one.
C15_Witness ==
    /\ Len(processed_entries) = 2
    /\ processed_entries[1].tag = tag_X_Post
    /\ processed_entries[1].summary = <<>>
    /\ processed_entries[2].tag = tag_Article
    /\ processed_entries[2].summary # <<>>
    /\ process_steps[2].summary_called
    /\ process_steps[2].llmSummary.kind = "ok"

(***************************************************************************)
(* _determine_tag on its own, over entries whose source label is made of   *)
(* two parts, and entries without a source.                                *)
(***************************************************************************)
l_x_post_lower == <<"x"," ","p","o","s","t">>
l_linkedin_upper == <<"L","I","N","K","E","D","I","N">>
l_blog == <<"B","l","o","g">>
l_xpost == <<"X","P","o","s","t"," ">>

LabelParts ==
    {<<>>, src_Twitter_search, tag_X_Post, l_x_post_lower, src_LinkedIn, l_linkedin_upper,
     src_RSS, l_blog, l_xpost}

SourceLabels == {a \o b : a, b \in LabelParts}

TagInputs ==
    {[source |-> s, title |-> t, description |-> t] :
        s \in SourceLabels, t \in {t_tweet, t_linkedin}}
        \cup {[title |-> t, description |-> t] : t \in {t_tweet, t_linkedin}}

InitTag ==
    /\ fn = "_determine_tag"
    /\ arg \in TagInputs
    /\ ret = <<>>
    /\ NothingRuns

DetermineTag ==
    /\ fn = "_determine_tag"
    /\ ret = <<>>
    /\ ret' = <<_determine_tag(arg)>>
    /\ UNCHANGED <<fn, arg, pipeVars, schedVars>>

SpecTag == InitTag /\ [][DetermineTag]_vars

\* The source label of the entry, lower-cased; empty when it has none.
LabelOf(entry) == IF "source" \in DOMAIN entry THEN Lower(entry.source) ELSE <<>>

\* C16: the tag is X Post when the lower-cased source label contains 'twitter' or
\* 'x post', else LinkedIn when it contains 'linkedin', else Article, whatever the
\* other fields of the entry are.
C16_TagBySource ==
    \A i \in DOMAIN ret :
        /\ ret[i] \in {tag_X_Post, tag_LinkedIn, tag_Article}
        /\ ret[i] = tag_X_Post <=>
               (Contains(LabelOf(arg), s_twitter) \/ Contains(LabelOf(arg), s_x_post))
        /\ ret[i] = tag_LinkedIn <=>
               /\ Contains(LabelOf(arg), s_linkedin)
               /\ ~Contains(LabelOf(arg), s_twitter)
               /\ ~Contains(LabelOf(arg), s_x_post)

\* An entry whose source label names LinkedIn and then Twitter, and whose text is a
\* LinkedIn post's, was tagged X Post.
C16_Witness ==
    /\ arg = [source |-> src_LinkedIn \o src_Twitter_search, title |-> t_linkedin,
              description |-> t_linkedin]
    /\ ret = <<tag_X_Post>>

\* The title and the description of the i-th entry, cleaned of markup.
CleanTitle(i) == _clean_html_tags(Get(filtered_entries[i], "title", <<>>))

CleanDescription(i) == _clean_html_tags(Get(filtered_entries[i], "description", <<>>))

\* The content a summary is made of: the description, the title when there is none.
ContentOf(i) == IF CleanDescription(i) # <<>> THEN CleanDescription(i) ELSE CleanTitle(i)

\* The content itself, or its first 200 characters and '...' when it is longer.
FallbackSummary(content) ==
    IF Len(content) > 200 THEN SubSeq(content, 1, 200) \o <<".", ".", ".">> ELSE content

\* C17: when the title call or the summary call of an entry raises, the entry is
\* still in the output of process_entries, with the content (cut to 200 characters
\* and '...' when longer) as its summary when the summary call raised, and the
\* existing title ('Delaware Business News' when there is none) as its title when
\* the title call raised; every entry of the batch is gone through, and only an
\* entry whose text cannot be cleaned is left out.
C17_LlmFailureKeepsEntry ==
    /\ Len(process_steps) = idx - 1
    /\ pc # "process" => Len(process_steps) = Len(filtered_entries)
    /\ \A i \in DOMAIN process_steps :
           /\ process_steps[i].raised <=>
                  \/ CleanRaises(Get(filtered_entries[i], "title", <<>>))
                  \/ CleanRaises(Get(filtered_entries[i], "description", <<>>))
           /\ ~process_steps[i].raised =>
                  processed_entries[Returned(i)].original_entry = filtered_entries[i]
           /\ process_steps[i].llmSummary.kind = "raise" =>
                  /\ ~process_steps[i].raised
                  /\ processed_entries[Returned(i)].summary
                         = _clean_html_tags(FallbackSummary(ContentOf(i)))
           /\ process_steps[i].llmTitle.kind = "raise" =>
                  /\ ~process_steps[i].raised
                  /\ processed_entries[Returned(i)].title
                         = _clean_html_tags(IF CleanTitle(i) # <<>> THEN CleanTitle(i)
                                            ELSE s_default_title)

\* Both calls raised for an article without title, and the summary call for the
\* article with the long description after it: both are in the output, the first
\* titled 'Delaware Business News', the second with its description cut to 200
\* characters and '...'.
C17_Witness ==
    /\ Len(process_steps) = 2
    /\ Len(processed_entries) = 2
    /\ process_steps[1].llmTitle.kind = "raise"
    /\ process_steps[1].llmSummary.kind = "raise"
    /\ processed_entries[1].title = s_default_title
    /\ processed_entries[1].summary = t_taxes_upper
    /\ process_steps[2].llmSummary.kind = "raise"
    /\ Len(processed_entries[2].summary) = 203
    /\ SubSeq(processed_entries[2].summary, 1, 200) = SubSeq(t_long, 1, 200)

(***************************************************************************)
(* RSSParser._parse_feed.  A feed entry carries published_parsed, the       *)
(* publication time in UTC (NoTime when feedparser could not parse the      *)
(* date, no such field when the entry has no date).  now is the time in     *)
(* UTC of the call and tz the hours the host's clock is ahead of UTC:       *)
(* datetime.now() reads the host's clock.                                   *)
(***************************************************************************)
MaxFeed == 2

RssWindowHours == 24

\* datetime(*entry.published_parsed[:6]) raises when the field is missing or None.
PublishedRaises(entry) ==
    "published_parsed" \notin DOMAIN entry \/ entry.published_parsed = NoTime

\* One iteration of the loop: the entry parsed, nothing when it is skipped.
ParseFeedEntry(entry, cutoff_date) ==
    IF PublishedRaises(entry) THEN <<>>
    ELSE IF DtLess(entry.published_parsed, cutoff_date) THEN <<>>
    ELSE <<[source         |-> src_RSS,
            title          |-> entry.title,
            description    |-> Get(entry, "description", <<>>),
            url            |-> entry.link,
            published_date |-> isoformat(entry.published_parsed),
            raw_data       |-> entry]>>

RECURSIVE ParseFeedEntries(_, _)
ParseFeedEntries(entries, cutoff_date) ==
    IF entries = <<>> THEN <<>>
    ELSE ParseFeedEntry(Head(entries), cutoff_date)
             \o ParseFeedEntries(Tail(entries), cutoff_date)

\* A _parse_feed that gives up on the feed at an entry without a usable date.
_parse_feed_abortsOnBadDate(feed, now, tz) ==
    IF \E i \in DOMAIN feed : PublishedRaises(feed[i]) THEN <<>>
    ELSE ParseFeedEntries(feed, MinusHours(datetime_now(now, tz), RssWindowHours))

_parse_feed(feed, now, tz) ==
    ParseFeedEntries(feed, MinusHours(datetime_now(now, tz), RssWindowHours))

\* The time of the call, in UTC.
NowUtc == datetime(2026, 10, 31, 12, 0, 0)

\* Hours the host's clock can be ahead of UTC.
TzOffsets == {-2, 0, 2}

FeedEntry(published_parsed) ==
    [title |-> t_leave, description |-> t_html, link |-> u_plain,
     published_parsed |-> published_parsed]

FeedEntries ==
    {FeedEntry(MinusHours(NowUtc, age)) : age \in {1, 23, 25, 27}}
        \cup {FeedEntry(NoTime), [title |-> t_leave, link |-> u_plain]}

InitFeed ==
    /\ fn = "_parse_feed"
    /\ arg \in [feed : SeqsUpTo(FeedEntries, MaxFeed), now : {NowUtc}, tz : TzOffsets]
    /\ ret = <<>>
    /\ NothingRuns

ParseFeed ==
    /\ fn = "_parse_feed"
    /\ ret = <<>>
    /\ ret' = <<_parse_feed(arg.feed, arg.now, arg.tz)>>
    /\ UNCHANGED <<fn, arg, pipeVars, schedVars>>

SpecFeed == InitFeed /\ [][ParseFeed]_vars

\* The entries of the feed that have a publication time.
Dated(feed) == SelectSeq(feed, LAMBDA e : ~PublishedRaises(e))

\* C18 as stated: every entry _parse_feed returns was published not earlier than
\* one day before the call.
C18_Original ==
    \A r \in DOMAIN ret : \A i \in DOMAIN ret[r] :
        HoursOf(ret[r][i].raw_data.published_parsed) >= HoursOf(arg.now) - 24

\* C18, what the code gives: _parse_feed returns, in the order of the feed, the
\* entries whose UTC publication time, read as a time of the host's clock, is not
\* earlier than one day before the host's clock; an entry without a usable date is
\* left out and the entries after it are still returned.
C18_LastDayOfHostClock ==
    \A r \in DOMAIN ret :
        /\ \A i \in DOMAIN ret[r] :
               HoursOf(ret[r][i].raw_data.published_parsed) >= HoursOf(arg.now) + arg.tz - 24
        /\ [i \in DOMAIN ret[r] |-> ret[r][i].raw_data]
               = SelectSeq(Dated(arg.feed),
                           LAMBDA e : HoursOf(e.published_parsed)
                                          >= HoursOf(arg.now) + arg.tz - 24)

\* On a host whose clock is UTC, the entry of an hour ago was returned although the
\* entry before it in the feed had no date.
C18_Witness ==
    /\ arg.tz = 0
    /\ arg.feed = <<[title |-> t_leave, link |-> u_plain], FeedEntry(MinusHours(NowUtc, 1))>>
    /\ \E r \in DOMAIN ret :
           /\ Len(ret[r]) = 1
           /\ ret[r][1].raw_data = arg.feed[2]

(***************************************************************************)
(* PhantomBusterClient._parse_date.  strptime is modelled for the formats  *)
(* the code tries: a format is a sequence of directives and literal         *)
(* characters.  tz is the hours the host's clock is ahead of UTC.          *)
(***************************************************************************)
s_mon == <<"m","o","n">>
s_tue == <<"t","u","e">>
s_wed == <<"w","e","d">>
s_thu == <<"t","h","u">>
s_fri == <<"f","r","i">>
s_sat == <<"s","a","t">>
s_sun == <<"s","u","n">>
s_jan == <<"j","a","n">>
s_feb == <<"f","e","b">>
s_mar == <<"m","a","r">>
s_apr == <<"a","p","r">>
s_may == <<"m","a","y">>
s_jun == <<"j","u","n">>
s_jul == <<"j","u","l">>
s_aug == <<"a","u","g">>
s_sep == <<"s","e","p">>
s_oct == <<"o","c","t">>
s_nov == <<"n","o","v">>
s_dec == <<"d","e","c">>

RECURSIVE StrToInt(_)
\* int(s) for a short string of digits
StrToInt(s) ==
    IF s = <<>> THEN 0
    ELSE StrToInt(SubSeq(s, 1, Len(s) - 1)) * 10 + (Ord(s[Len(s)]) - 48)

RECURSIVE DivModDigits(_, _, _)
\* int(s) divided by d, digit by digit: the quotient and the remainder.
DivModDigits(s, d, acc) ==
    IF s = <<>> THEN acc
    ELSE DivModDigits(Tail(s), d,
             [q |-> acc.q * 10 + (acc.r * 10 + (Ord(Head(s)) - 48)) \div d,
              r |-> (acc.r * 10 + (Ord(Head(s)) - 48)) % d])

fmt_space == <<"%Y", "-", "%m", "-", "%d", " ", "%H", ":", "%M", ":", "%S">>
fmt_T == <<"%Y", "-", "%m", "-", "%d", "T", "%H", ":", "%M", ":", "%S">>
fmt_T_f == fmt_T \o <<".", "%f">>
fmt_T_Z == fmt_T \o <<"Z">>
fmt_T_f_Z == fmt_T_f \o <<"Z">>
fmt_T_z == fmt_T \o <<"%z">>
fmt_rfc822 ==
    <<"%a", ",", " ", "%d", " ", "%b", " ", "%Y", " ", "%H", ":", "%M", ":", "%S", " ", "%z">>
fmt_mdY == <<"%m", "/", "%d", "/", "%Y">>
fmt_dmY == <<"%d", "/", "%m", "/", "%Y">>
fmt_Ymd == <<"%Y", "-", "%m", "-", "%d">>

formats ==
    <<fmt_space, fmt_T, fmt_T_f, fmt_T_Z, fmt_T_f_Z, fmt_T_z, fmt_rfc822, fmt_mdY, fmt_dmY,
      fmt_Ymd>>

\* The field a numeric directive sets, the digits it takes and the values it accepts.
NumericDirectives ==
    [d \in {"%Y", "%m", "%d", "%H", "%M", "%S"} |->
        CASE d = "%Y" -> [name |-> "year", minw |-> 4, lo |-> 1, hi |-> 9999]
          [] d = "%m" -> [name |-> "month", minw |-> 1, lo |-> 1, hi |-> 12]
          [] d = "%d" -> [name |-> "day", minw |-> 1, lo |-> 1, hi |-> 31]
          [] d = "%H" -> [name |-> "hour", minw |-> 1, lo |-> 0, hi |-> 23]
          [] d = "%M" -> [name |-> "minute", minw |-> 1, lo |-> 0, hi |-> 59]
          [] d = "%S" -> [name |-> "second", minw |-> 1, lo |-> 0, hi |-> 59]]

DirectiveWidth(d) == IF d = "%Y" THEN 4 ELSE 2

weekdays == <<s_mon, s_tue, s_wed, s_thu, s_fri, s_sat, s_sun>>

months == <<s_jan, s_feb, s_mar, s_apr, s_may, s_jun, s_jul, s_aug, s_sep, s_oct, s_nov, s_dec>>

\* \s of a regular expression (the vertical tab is left out)
RegexSpace == {" ", "\t", "\n", "\r", "\f"}

\* [0-5]\d at position i of s
IsSixtieth(s, i) ==
    Len(s) >= i + 1 /\ s[i] \in {"0", "1", "2", "3", "4", "5"} /\ IsDigit(s[i + 1])

\* (:?[0-5]\d(\.\d{1,6})?)? from position i of s: the length it takes.
OffsetSecondsLen(s, i) ==
    IF IsSixtieth(s, i)
    THEN 2 + (IF Len(s) >= i + 3 /\ s[i + 2] = "." /\ IsDigit(s[i + 3])
              THEN 1 + Len(Take(DigitRun(Drop(s, i + 2)), 6)) ELSE 0)
    ELSE IF Len(s) >= i /\ s[i] = ":" /\ IsSixtieth(s, i + 1)
    THEN 3 + (IF Len(s) >= i + 4 /\ s[i + 3] = "." /\ IsDigit(s[i + 4])
              THEN 1 + Len(Take(DigitRun(Drop(s, i + 3)), 6)) ELSE 0)
    ELSE 0

\* [+-]\d\d:?[0-5]\d(:?[0-5]\d(\.\d{1,6})?)? at the start of s: its length, 0 when s
\* does not start with one.
OffsetLen(s) ==
    IF Len(s) >= 5 /\ s[1] \in {"+", "-"} /\ IsDigit(s[2]) /\ IsDigit(s[3])
    THEN IF IsSixtieth(s, 4) THEN 5 + OffsetSecondsLen(s, 6)
         ELSE IF s[4] = ":" /\ IsSixtieth(s, 5) THEN 6 + OffsetSecondsLen(s, 7)
         ELSE 0
    ELSE 0

\* What strptime starts from.
StrptimeStart ==
    [year |-> 1900, month |-> 1, day |-> 1, hour |-> 0, minute |-> 0, second |-> 0,
     microsecond |-> 0, aware |-> FALSE, ok |-> TRUE]

StrptimeFails == [StrptimeStart EXCEPT !.ok = FALSE]

\* %f: one to six digits, the fraction of a second.
Micros(digits) ==
    StrToInt(digits \o [i \in 1..(6 - Len(digits)) |-> "0"])

RECURSIVE Strptime(_, _, _)
\* The numeric directive d at the start of s, its digits being digits.
StrptimeNumber(s, fmt, acc, d, digits) ==
    IF /\ Len(digits) >= NumericDirectives[d].minw
       /\ StrToInt(digits) >= NumericDirectives[d].lo
       /\ StrToInt(digits) <= NumericDirectives[d].hi
    THEN Strptime(Drop(s, Len(digits)), Tail(fmt),
                  [acc EXCEPT ![NumericDirectives[d].name] = StrToInt(digits)])
    ELSE IF d = "%d" /\ Len(s) >= 2 /\ s[1] = " " /\ IsDigit(s[2]) /\ s[2] # "0"
    THEN Strptime(Drop(s, 2), Tail(fmt), [acc EXCEPT !.day = StrToInt(<<s[2]>>)])
    ELSE StrptimeFails

\* The fields strptime reads from s with the rest of the format fmt, ok being FALSE
\* when s does not match it.
Strptime(s, fmt, acc) ==
    IF fmt = <<>> THEN [acc EXCEPT !.ok = (s = <<>>)]
    ELSE IF Head(fmt) \in DOMAIN NumericDirectives
    THEN StrptimeNumber(s, fmt, acc, Head(fmt), Take(DigitRun(s), DirectiveWidth(Head(fmt))))
    ELSE IF Head(fmt) = "%f"
    THEN IF DigitRun(s) = <<>> THEN StrptimeFails
         ELSE Strptime(Drop(s, Len(Take(DigitRun(s), 6))), Tail(fmt),
                       [acc EXCEPT !.microsecond = Micros(Take(DigitRun(s), 6))])
    ELSE IF Head(fmt) = "%z"
    THEN IF StartsWith(s, <<"Z">>)
         THEN Strptime(Drop(s, 1), Tail(fmt), [acc EXCEPT !.aware = TRUE])
         ELSE IF OffsetLen(s) > 0
         THEN Strptime(Drop(s, OffsetLen(s)), Tail(fmt), [acc EXCEPT !.aware = TRUE])
         ELSE StrptimeFails
    ELSE IF Head(fmt) = "%a"
    THEN IF \E i \in DOMAIN weekdays : Lower(Take(s, 3)) = weekdays[i]
         THEN Strptime(Drop(s, 3), Tail(fmt), acc)
         ELSE StrptimeFails
    ELSE IF Head(fmt) = "%b"
    THEN IF \E i \in DOMAIN months : Lower(Take(s, 3)) = months[i]
         THEN Strptime(Drop(s, 3), Tail(fmt),
                       [acc EXCEPT !.month = CHOOSE i \in DOMAIN months :
                                                 Lower(Take(s, 3)) = months[i]])
         ELSE StrptimeFails
    ELSE IF Head(fmt) = " "
    THEN IF s # <<>> /\ Head(s) \in RegexSpace
         THEN Strptime(LStrip(s, RegexSpace), Tail(fmt), acc)
         ELSE StrptimeFails
    ELSE IF s # <<>> /\ LowerChar(Head(s)) = LowerChar(Head(fmt))
    THEN Strptime(Tail(s), Tail(fmt), acc)
    ELSE StrptimeFails

\* The value of datetime.strptime(s, fmt), NoTime when it raises ValueError.
StrptimeValue(r) ==
    IF r.ok /\ r.day <= DaysInMonth(r.year, r.month)
    THEN [year |-> r.year, month |-> r.month, day |-> r.day, hour |-> r.hour,
          minute |-> r.minute, second |-> r.second, microsecond |-> r.microsecond,
          aware |-> r.aware]
    ELSE NoTime

strptime(s, fmt) == StrptimeValue(Strptime(s, fmt, StrptimeStart))

RECURSIVE FirstFormat(_, _)
\* for fmt in formats: try: return datetime.strptime(s, fmt); after the loop, None
FirstFormat(s, fmts) ==
    IF fmts = <<>> THEN NoTime
    ELSE IF strptime(s, Head(fmts)) # NoTime THEN strptime(s, Head(fmts))
    ELSE FirstFormat(s, Tail(fmts))

\* re.sub(r'([+-]\d\d):(\d\d)$', r'\1\2', s)
TzColonRemoved(s) ==
    IF /\ Len(s) >= 6
       /\ s[Len(s) - 5] \in {"+", "-"}
       /\ IsDigit(s[Len(s) - 4]) /\ IsDigit(s[Len(s) - 3])
       /\ s[Len(s) - 2] = ":"
       /\ IsDigit(s[Len(s) - 1]) /\ IsDigit(s[Len(s)])
    THEN SubSeq(s, 1, Len(s) - 3) \o SubSeq(s, Len(s) - 1, Len(s))
    ELSE s

\* re.fullmatch(r'\d{10,13}', s)
IsEpoch(s) == IsDigits(s) /\ Len(s) >= 10 /\ Len(s) <= 13

\* Days from 1970-01-01 to 9999-12-31: datetime.fromtimestamp raises beyond.
MaxDay == 2932896

\* datetime.fromtimestamp of secs seconds and micro microseconds: the host's time.
FromTimestamp(dm, micro, tz) ==
    IF dm.q + ((dm.r + tz * 3600) \div 86400) > MaxDay THEN NoTime
    ELSE [PlusHours(FromDaySecond(dm.q, dm.r), tz) EXCEPT !.microsecond = micro]

\* The epoch branch: 13 digits are milliseconds, fewer are seconds.
EpochValue(s, tz) ==
    IF Len(s) = 13
    THEN FromTimestamp(DivModDigits(SubSeq(s, 1, 10), 86400, [q |-> 0, r |-> 0]),
                       StrToInt(SubSeq(s, 11, 13)) * 1000, tz)
    ELSE FromTimestamp(DivModDigits(s, 86400, [q |-> 0, r |-> 0]), 0, tz)

\* s is the stripped text.
ParseStripped(s, tz) ==
    IF IsEpoch(s) /\ EpochValue(s, tz) # NoTime THEN EpochValue(s, tz)
    ELSE FirstFormat(TzColonRemoved(s), formats)

\* NoTime stands for None.
_parse_date(date_str, tz) ==
    IF ~Truthy(date_str) THEN NoTime ELSE ParseStripped(Strip(date_str), tz)

(***************************************************************************)
(* PhantomBusterClient: the date of a row, the recency test and the two    *)
(* parsers.                                                                *)
(***************************************************************************)
k_timestamp == <<"t","i","m","e","s","t","a","m","p">>
k_date == <<"d","a","t","e">>
k_publishedAt == <<"p","u","b","l","i","s","h","e","d","A","t">>
k_publicationDate == <<"p","u","b","l","i","c","a","t","i","o","n","D","a","t","e">>
k_time == <<"t","i","m","e">>
k_created_at == <<"c","r","e","a","t","e","d","_","a","t">>
k_post_date == <<"p","o","s","t","_","d","a","t","e">>
k_timestampMs == <<"t","i","m","e","s","t","a","m","p","M","s">>
k_epoch == <<"e","p","o","c","h">>
c_tweet_date == <<"t","w","e","e","t"," ","d","a","t","e">>
c_tweet_date_u == <<"t","w","e","e","t","_","d","a","t","e">>
c_tweetDate == <<"t","w","e","e","t","D","a","t","e">>
c_tweeted_at == <<"t","w","e","e","t","e","d"," ","a","t">>
c_tweeted_at_u == <<"t","w","e","e","t","e","d","_","a","t">>
c_tweetedAt == <<"t","w","e","e","t","e","d","A","t">>
k_text == <<"t","e","x","t">>
k_content == <<"c","o","n","t","e","n","t">>
k_message == <<"m","e","s","s","a","g","e">>
k_title == <<"t","i","t","l","e">>
k_Tweet_Date == <<"T","w","e","e","t"," ","D","a","t","e">>
s_twitter_open == <<"T","w","i","t","t","e","r"," ","(">>
st_twitter_search == <<"t","w","i","t","t","e","r","_","s","e","a","r","c","h">>

DateKeys ==
    <<k_timestamp, k_date, k_publishedAt, k_publicationDate, k_time, k_created_at,
      k_post_date, k_timestampMs, k_epoch>>

TweetDateCandidates ==
    <<c_tweet_date, c_tweet_date_u, c_tweetDate, c_tweeted_at, c_tweeted_at_u, c_tweetedAt>>

TextKeys == <<k_text, k_content, k_message, k_title>>

TwitterAuthorKeys == <<k_handle, k_username, k_author, k_poster, k_name>>

LinkedInAuthorKeys == <<k_author, k_username, k_name>>

LinkedInUrlKeys == <<k_url, k_link, k_postUrl>>

TitleLen == 100

RECURSIVE ExtractDateFrom(_, _, _)
\* if dt: return dt, and the next key otherwise.
ExtractDateOr(dt, row, keys, tz) == IF dt # NoTime THEN dt ELSE ExtractDateFrom(row, keys, tz)

\* for k in keys: v = row.get(k); if v: dt = self._parse_date(v); if dt: return dt
ExtractDateFrom(row, keys, tz) ==
    IF keys = <<>> THEN NoTime
    ELSE IF Truthy(RowGet(row, Head(keys)))
    THEN ExtractDateOr(_parse_date(RowGet(row, Head(keys)), tz), row, Tail(keys), tz)
    ELSE ExtractDateFrom(row, Tail(keys), tz)

_extract_date(row, tz) == ExtractDateFrom(row, DateKeys, tz)

\* The place of the leftmost match of a pattern in s, 0 when there is none; lens[i]
\* is the length the pattern takes at place i of s, 0 when it does not match there.
FirstMatchAt(lens) ==
    IF \E i \in DOMAIN lens : lens[i] > 0
    THEN CHOOSE i \in DOMAIN lens : lens[i] > 0 /\ \A j \in 1..(i - 1) : lens[j] = 0
    ELSE 0

\* m.group(0) of re.search, <<>> when there is no match.
FirstMatch(s, lens) ==
    IF FirstMatchAt(lens) = 0 THEN <<>>
    ELSE SubSeq(s, FirstMatchAt(lens), FirstMatchAt(lens) + lens[FirstMatchAt(lens)] - 1)

AllDigits(s, from, to) == Len(s) >= to /\ \A i \in from..to : IsDigit(s[i])

\* \d{4}-\d{2}-\d{2}
IsoTokenLen(t) ==
    IF /\ AllDigits(t, 1, 4) /\ Len(t) >= 10 /\ t[5] = "-"
       /\ AllDigits(t, 6, 7) /\ t[8] = "-" /\ AllDigits(t, 9, 10)
    THEN 10 ELSE 0

\* \d{1,2}/ at the start of t: its length, 0 when t does not start with one.
DayPartLen(t) ==
    IF AllDigits(t, 1, 2) /\ Len(t) >= 3 /\ t[3] = "/" THEN 3
    ELSE IF AllDigits(t, 1, 1) /\ Len(t) >= 2 /\ t[2] = "/" THEN 2
    ELSE 0

\* \d{1,2}/\d{1,2}/\d{2,4}
UsTokenLen(t) ==
    IF /\ DayPartLen(t) > 0
       /\ DayPartLen(Drop(t, DayPartLen(t))) > 0
       /\ Len(DigitRun(Drop(t, DayPartLen(t) + DayPartLen(Drop(t, DayPartLen(t)))))) >= 2
    THEN DayPartLen(t) + DayPartLen(Drop(t, DayPartLen(t)))
             + Len(Take(DigitRun(Drop(t, DayPartLen(t) + DayPartLen(Drop(t, DayPartLen(t))))), 4))
    ELSE 0

RECURSIVE LetterRun(_)
LetterRun(s) == IF s # <<>> /\ IsAlpha(Head(s)) THEN <<Head(s)>> \o LetterRun(Tail(s)) ELSE <<>>

\* \s+\d{1,2},\s*\d{4} at the start of t: its length, 0 when t does not start with one.
DayYearLen(t) ==
    IF /\ t # <<>> /\ Head(t) \in RegexSpace
       /\ Len(DigitRun(LStrip(t, RegexSpace))) \in {1, 2}
       /\ StartsWith(Drop(LStrip(t, RegexSpace), Len(DigitRun(LStrip(t, RegexSpace)))), <<",">>)
       /\ Len(DigitRun(LStrip(Drop(LStrip(t, RegexSpace),
                                   Len(DigitRun(LStrip(t, RegexSpace))) + 1), RegexSpace))) >= 4
    THEN Len(t) - Len(LStrip(Drop(LStrip(t, RegexSpace),
                                  Len(DigitRun(LStrip(t, RegexSpace))) + 1), RegexSpace)) + 4
    ELSE 0

\* [A-Za-z]{3,9}\s+\d{1,2},\s*\d{4}
NamedTokenLen(t) ==
    IF Len(LetterRun(t)) >= 3 /\ Len(LetterRun(t)) <= 9 /\ DayYearLen(Drop(t, Len(LetterRun(t)))) > 0
    THEN Len(LetterRun(t)) + DayYearLen(Drop(t, Len(LetterRun(t))))
    ELSE 0

\* for pat in patterns: m = re.search(pat, s); if m: ... : the token of the first
\* pattern that matches, <<>> when none does.
DateToken(s) ==
    IF FirstMatch(s, [i \in DOMAIN s |-> IsoTokenLen(Drop(s, i - 1))]) # <<>>
    THEN FirstMatch(s, [i \in DOMAIN s |-> IsoTokenLen(Drop(s, i - 1))])
    ELSE IF FirstMatch(s, [i \in DOMAIN s |-> UsTokenLen(Drop(s, i - 1))]) # <<>>
    THEN FirstMatch(s, [i \in DOMAIN s |-> UsTokenLen(Drop(s, i - 1))])
    ELSE FirstMatch(s, [i \in DOMAIN s |-> NamedTokenLen(Drop(s, i - 1))])

\* From the stripped text of the field and the token found in it.
TweetDateOfToken(s, token, dt2) ==
    IF token = <<>> THEN [dt |-> NoTime, display |-> s]
    ELSE IF dt2 # NoTime THEN [dt |-> dt2, display |-> date_isoformat(dt2)]
    ELSE [dt |-> NoTime, display |-> token]

\* From the stripped text of the field and what _parse_date makes of it.
TweetDateOfText(s, dt, tz) ==
    IF dt # NoTime THEN [dt |-> dt, display |-> date_isoformat(dt)]
    ELSE TweetDateOfToken(s, DateToken(s), _parse_date(DateToken(s), tz))

TweetDateOf(val, tz) ==
    IF val = <<>> THEN [dt |-> NoTime, display |-> <<>>]
    ELSE TweetDateOfText(Strip(val), _parse_date(Strip(val), tz), tz)

\* The pair (datetime, text) the code returns, as a record.
_extract_tweet_date(row, tz) ==
    TweetDateOf(_get_caseinsensitive_field(row, TweetDateCandidates), tz)

\* A recency test that passes every dated post, whatever its age.
_is_recent_anyAge(dt, now, tz, window_days) ==
    IF dt = NoTime THEN "False"
    ELSE IF dt.aware THEN "raise"
    ELSE "True"

\* "raise" stands for the TypeError of comparing a datetime that carries a time zone
\* with datetime.now().
_is_recent(dt, now, tz, window_days) ==
    IF dt = NoTime THEN "False"
    ELSE IF dt.aware THEN "raise"
    ELSE IF DtLess(dt, MinusHours(datetime_now(now, tz), 24 * window_days)) THEN "False"
    ELSE "True"

\* (text[:100] + '...') if len(text) > 100 else text
PostTitle(text) == IF Len(text) > TitleLen THEN Take(text, TitleLen) \o s_ellipsis ELSE text

\* A Twitter row that keeps the date text of the row when it has no parsed date.
TwitterDate_keepsToken(tweet_date, post_dt) ==
    IF tweet_date.dt # NoTime THEN tweet_date
    ELSE [dt      |-> post_dt,
          display |-> IF tweet_date.display # <<>> THEN tweet_date.display
                      ELSE IF post_dt # NoTime THEN date_isoformat(post_dt)
                      ELSE <<>>]

\* post_dt, display_date = self._extract_tweet_date(row); if post_dt is None: ...,
\* where post_dt is what _extract_date gives for the row.
TwitterDate(tweet_date, post_dt) ==
    IF tweet_date.dt # NoTime THEN tweet_date
    ELSE [dt      |-> post_dt,
          display |-> IF post_dt # NoTime THEN date_isoformat(post_dt) ELSE <<>>]

TwitterEntry(row, source_type, display_date) ==
    [source         |-> s_twitter_open \o source_type \o <<")">>,
     title          |-> PostTitle(FirstTruthy(row, TextKeys)),
     description    |-> FirstTruthy(row, TextKeys),
     url            |-> TweetUrl(row),
     published_date |-> display_date,
     author         |-> FirstTruthy(row, TwitterAuthorKeys),
     raw_data       |-> row]

LinkedInEntry(row, post_date) ==
    [source         |-> src_LinkedIn,
     title          |-> PostTitle(FirstTruthy(row, TextKeys)),
     description    |-> FirstTruthy(row, TextKeys),
     url            |-> FirstTruthy(row, LinkedInUrlKeys),
     published_date |-> IF post_date # NoTime THEN isoformat(post_date) ELSE <<>>,
     author         |-> FirstTruthy(row, LinkedInAuthorKeys),
     raw_data       |-> row]

\* One row of the loop: what _is_recent answered and the entry appended, if any.
TwitterRowOf(row, source_type, d, recent) ==
    [raised  |-> recent = "raise",
     entries |-> IF recent = "True" THEN <<TwitterEntry(row, source_type, d.display)>> ELSE <<>>]

TwitterRowDated(row, source_type, d, now, tz, window_days) ==
    TwitterRowOf(row, source_type, d, _is_recent(d.dt, now, tz, window_days))

TwitterRow(row, source_type, now, tz, window_days) ==
    TwitterRowDated(row, source_type,
                    TwitterDate(_extract_tweet_date(row, tz), _extract_date(row, tz)),
                    now, tz, window_days)

LinkedInRowOf(row, post_date, recent) ==
    [raised  |-> recent = "raise",
     entries |-> IF recent = "True" THEN <<LinkedInEntry(row, post_date)>> ELSE <<>>]

LinkedInRowDated(row, post_date, now, tz, window_days) ==
    LinkedInRowOf(row, post_date, _is_recent(post_date, now, tz, window_days))

LinkedInRow(row, now, tz, window_days) ==
    LinkedInRowDated(row, _extract_date(row, tz), now, tz, window_days)

RECURSIVE ParseRows(_)
\* The loop over the rows, from what each row gives: the entries appended until a row
\* raises.  The exception ends the loop and what was appended before it is returned:
\* in the CSV path by the outer handler, in the JSON path by the inner handler, after
\* which the CSV reader is run over the JSON text and finds a header line and no row
\* in it.
ParseRows(results) ==
    IF results = <<>> THEN <<>>
    ELSE IF Head(results).raised THEN <<>>
    ELSE Head(results).entries \o ParseRows(Tail(results))

\* rows is the decoded JSON or CSV of the result file.
_parse_twitter_data(rows, source_type, now, tz, window_days) ==
    ParseRows([i \in DOMAIN rows |-> TwitterRow(rows[i], source_type, now, tz, window_days)])

_parse_linkedin_data(rows, now, tz, window_days) ==
    ParseRows([i \in DOMAIN rows |-> LinkedInRow(rows[i], now, tz, window_days)])

(***************************************************************************)
(* The two parsers over small result files, on hosts in several time zones *)
(* and with a window of one or two days.                                   *)
(***************************************************************************)
MaxRows == 2

v_td_dateonly == <<"2","0","2","6","-","1","0","-","3","1">>
v_td_utc == <<"2","0","2","6","-","1","0","-","3","0","T","1","1",":","0","0",":","0","0","Z">>
v_td_named == <<"O","c","t"," ","3","1",","," ","2","0","2","6">>
v_td_short == <<"1","0","/","3","1","/","2","6">>
v_td_aware == <<"2","0","2","6","-","1","0","-","3","0","T","1","3",":","0","0",":","0","0","+","0","0",":","0","0">>
v_td_inline == <<"o","n"," ","1","0","/","3","1","/","2","0","2","6"," ","a","t"," ","9">>
v_ts_epoch == <<"1","7","9","3","4","4","0","0","0","0">>
v_ts_older == <<"2","0","2","6","-","1","0","-","2","9","T","1","3",":","0","0",":","0","0">>
st_twitter == <<"t","w","i","t","t","e","r">>
st_linkedin == <<"l","i","n","k","e","d","i","n">>

WindowDays == {1, 2}

PhantomRows ==
    { <<<<k_Tweet_Date, v_td_dateonly>>, <<k_text, t_mention>>, <<k_handle, v_handle_at>>,
        <<k_url, v_tw_status>>>>,
      <<<<k_Tweet_Date, v_td_utc>>, <<k_date, v_td_utc>>, <<k_text, t_long>>,
        <<k_author, a_bob>>>>,
      <<<<k_Tweet_Date, v_td_named>>, <<k_timestamp, v_td_short>>, <<k_epoch, v_ts_epoch>>,
        <<k_content, t_leave>>, <<k_author, a_ann>>, <<k_postUrl, u_linkedin>>>>,
      <<<<c_tweet_date_u, v_td_short>>, <<k_timestamp, <<>>>>, <<k_text, t_leave>>>>,
      <<<<k_Tweet_Date, v_td_aware>>, <<k_date, v_td_aware>>, <<k_text, t_leave>>>>,
      <<<<c_tweetedAt, v_td_inline>>, <<k_date, v_ts_older>>, <<k_title, t_leave>>,
        <<k_name, a_ann>>, <<k_link, u_linkedin>>>> }

InitPhantom ==
    /\ fn = "phantom"
    /\ arg \in [rows : SeqsUpTo(PhantomRows, MaxRows), now : {NowUtc}, tz : TzOffsets,
                window_days : WindowDays]
    /\ ret = <<>>
    /\ NothingRuns

ParseTwitter ==
    /\ fn = "phantom"
    /\ ret = <<>>
    /\ ret' = <<[kind    |-> st_twitter,
                 entries |-> _parse_twitter_data(arg.rows, st_twitter_search, arg.now, arg.tz,
                                                 arg.window_days)]>>
    /\ UNCHANGED <<fn, arg, pipeVars, schedVars>>

ParseLinkedIn ==
    /\ fn = "phantom"
    /\ ret = <<>>
    /\ ret' = <<[kind    |-> st_linkedin,
                 entries |-> _parse_linkedin_data(arg.rows, arg.now, arg.tz,
                                                  arg.window_days)]>>
    /\ UNCHANGED <<fn, arg, pipeVars, schedVars>>

SpecPhantom == InitPhantom /\ [][ParseTwitter \/ ParseLinkedIn]_vars

\* The post date the parser of the given kind takes from a row.
PostDate(kind, row, tz) ==
    IF kind = st_twitter
    THEN TwitterDate(_extract_tweet_date(row, tz), _extract_date(row, tz)).dt
    ELSE _extract_date(row, tz)

RECURSIVE ExtractDateText(_, _, _)
\* The text of the row _extract_date parses its date from.
ExtractDateText(row, keys, tz) ==
    IF keys = <<>> THEN <<>>
    ELSE IF /\ Truthy(RowGet(row, Head(keys)))
            /\ _parse_date(RowGet(row, Head(keys)), tz) # NoTime
    THEN RowGet(row, Head(keys))
    ELSE ExtractDateText(row, Tail(keys), tz)

\* The text of the row the post date is parsed from.
PostDateText(kind, row, tz) ==
    IF kind = st_twitter /\ _extract_tweet_date(row, tz).dt # NoTime
    THEN IF _parse_date(Strip(_get_caseinsensitive_field(row, TweetDateCandidates)), tz) # NoTime
         THEN Strip(_get_caseinsensitive_field(row, TweetDateCandidates))
         ELSE DateToken(Strip(_get_caseinsensitive_field(row, TweetDateCandidates)))
    ELSE ExtractDateText(row, DateKeys, tz)

\* The moment of the post in UTC: a text that ends in Z gives a UTC time, any other
\* text is read as a time of the host's clock.
PostInstant(kind, row, tz) ==
    IF PostDateText(kind, row, tz) # <<>>
         /\ PostDateText(kind, row, tz)[Len(PostDateText(kind, row, tz))] = "Z"
    THEN PostDate(kind, row, tz)
    ELSE MinusHours(PostDate(kind, row, tz), tz)

\* The post, dated dt by the parser and made at the moment posted, is not older than
\* the window at the moment now.
InWindow(dt, posted, now, window_days) ==
    /\ dt # NoTime
    /\ ~DtLess(posted, MinusHours(now, 24 * window_days))

\* C19 as stated: every entry a parser emits has a parsed post date, and the post
\* was made not earlier than window_days days before the call; a row without a
\* date in any known field is never emitted.
C19_Original ==
    \A r \in DOMAIN ret : \A i \in DOMAIN ret[r].entries :
        InWindow(PostDate(ret[r].kind, ret[r].entries[i].raw_data, arg.tz),
                 PostInstant(ret[r].kind, ret[r].entries[i].raw_data, arg.tz),
                 arg.now, arg.window_days)

\* The date dt carries no time zone and, read as a time of the host's clock, is not
\* older than the window on the host's clock.
InHostWindow(dt, now, tz, window_days) ==
    /\ dt # NoTime
    /\ ~dt.aware
    /\ ~DtLess(dt, MinusHours(PlusHours(now, tz), 24 * window_days))

\* C19, what the code gives: every entry a parser emits comes from a row with a
\* parsed post date that carries no time zone and whose fields, read as a time of the
\* host's clock, are not earlier than window_days days before the host's clock; a row
\* without a date in any known field is never emitted.
C19_RecentOnHostClock ==
    \A r \in DOMAIN ret :
        /\ \A i \in DOMAIN ret[r].entries :
               InHostWindow(PostDate(ret[r].kind, ret[r].entries[i].raw_data, arg.tz),
                            arg.now, arg.tz, arg.window_days)
        /\ \A j \in DOMAIN arg.rows :
               PostDate(ret[r].kind, arg.rows[j], arg.tz) = NoTime
                   => \A i \in DOMAIN ret[r].entries :
                          ret[r].entries[i].raw_data # arg.rows[j]

\* With a window of one day a parser ran over a file holding a row with no usable
\* date and then a row dated through its epoch field: only the second was emitted.
C19_Witness ==
    /\ ret # <<>>
    /\ arg.window_days = 1
    /\ Len(arg.rows) = 2
    /\ PostDate(ret[1].kind, arg.rows[1], arg.tz) = NoTime
    /\ RowGet(arg.rows[1], c_tweet_date_u) = v_td_short
    /\ RowGet(arg.rows[2], k_epoch) = v_ts_epoch
    /\ Len(ret[1].entries) = 1
    /\ ret[1].entries[1].raw_data = arg.rows[2]

IsDateOnly(s) ==
    /\ Len(s) = 10
    /\ \A i \in {1, 2, 3, 4, 6, 7, 9, 10} : IsDigit(s[i])
    /\ s[5] = "-"
    /\ s[8] = "-"

\* published_date is the calendar date, as YYYY-MM-DD, of the post date dt, and not
\* the text tweet_date holds when the tweet date field gave no date.
IsDateOf(published_date, dt, tweet_date) ==
    /\ IsDateOnly(published_date)
    /\ dt # NoTime
    /\ published_date = date_isoformat(dt)
    /\ tweet_date.dt = NoTime => published_date # tweet_date.display

\* C20: the published_date of every Twitter entry emitted is a text of the form
\* YYYY-MM-DD, the calendar date of the parsed post date; the text of the row's tweet
\* date field, or a token cut from it, is never the published_date unless it parses
\* to a date.
C20_DateOnlyFromParsedDate ==
    \A r \in DOMAIN ret : \A i \in DOMAIN ret[r].entries :
        ret[r].kind = st_twitter =>
            IsDateOf(ret[r].entries[i].published_date,
                     PostDate(st_twitter, ret[r].entries[i].raw_data, arg.tz),
                     _extract_tweet_date(ret[r].entries[i].raw_data, arg.tz))

\* A Twitter entry was emitted for a row whose tweet date field holds a text no
\* format parses: its published_date is the date of the row's epoch field.
C20_Witness ==
    \E r \in DOMAIN ret : \E i \in DOMAIN ret[r].entries :
        /\ ret[r].kind = st_twitter
        /\ RowGet(ret[r].entries[i].raw_data, k_Tweet_Date) = v_td_named
        /\ _extract_tweet_date(ret[r].entries[i].raw_data, arg.tz).display = v_td_named
        /\ ret[r].entries[i].published_date = v_td_dateonly

(***************************************************************************)
(* PhantomBusterClient._get_phantom_results: the agent request, the        *)
(* locations of the result file and the downloads.                        *)
(***************************************************************************)
base_url == <<"h","t","t","p","s",":","/","/","a","p","i",".","p","h","a","n","t","o","m","b","u","s","t","e","r",".","c","o","m","/","a","p","i","/","v","2">>
s_agents_fetch == <<"/","a","g","e","n","t","s","/","f","e","t","c","h">>
k_csvUrl == <<"c","s","v","U","r","l">>
k_jsonUrl == <<"j","s","o","n","U","r","l">>
k_resultsCsvUrl == <<"r","e","s","u","l","t","s","C","s","v","U","r","l">>
k_resultsJsonUrl == <<"r","e","s","u","l","t","s","J","s","o","n","U","r","l">>
k_s3Folder == <<"s","3","F","o","l","d","e","r">>
k_orgS3Folder == <<"o","r","g","S","3","F","o","l","d","e","r">>
k_csvName == <<"c","s","v","N","a","m","e">>
k_csvFilename == <<"c","s","v","F","i","l","e","n","a","m","e">>
n_result == <<"r","e","s","u","l","t">>
n_results == <<"r","e","s","u","l","t","s">>
n_output == <<"o","u","t","p","u","t">>
n_data == <<"d","a","t","a">>
n_dataset == <<"d","a","t","a","s","e","t">>
s_s3_base == <<"h","t","t","p","s",":","/","/","p","h","a","n","t","o","m","b","u","s","t","e","r",".","s","3",".","a","m","a","z","o","n","a","w","s",".","c","o","m","/">>
s_dot_csv == <<".","c","s","v">>
s_dot_json == <<".","j","s","o","n">>
s_csv == <<"c","s","v">>
s_json == <<"j","s","o","n">>
p_twitter_hashtag == <<"t","w","i","t","t","e","r","_","h","a","s","h","t","a","g">>
p_twitter_extractor == <<"t","w","i","t","t","e","r","_","e","x","t","r","a","c","t","o","r">>
p_linkedin_posts == <<"l","i","n","k","e","d","i","n","_","p","o","s","t","s">>

\* A request made through requests.get: its URL and where the API key travels
\* ("header", "query", or "none" for a download).
Request(url, auth) == [url |-> url, auth |-> auth]

\* url = f"{self.base_url}/agents/fetch"
AgentsFetchUrl == base_url \o s_agents_fetch

\* The answer to a download: requests.get raised (no response), or a response with a
\* status and a text; blank says that text.strip() is empty, rows is the decoded text.
Raised == [raises |-> TRUE, status_code |-> 0, blank |-> TRUE, rows |-> <<>>]

Response(status_code, blank, rows) ==
    [raises |-> FALSE, status_code |-> status_code, blank |-> blank, rows |-> rows]

\* response.json() of an agent response: invalid when json() raises or the payload is
\* not an object; root holds the fields of the payload, data those under its "data"
\* key when that is an object (nested), argument the decoded "argument" text of the
\* section in use.
Payload(nested, root, data, argument) ==
    [invalid |-> FALSE, nested |-> nested, root |-> root, data |-> data, argument |-> argument]

InvalidPayload ==
    [invalid |-> TRUE, nested |-> FALSE, root |-> <<>>, data |-> <<>>,
     argument |-> [kind |-> "absent", obj |-> <<>>]]

\* The answer to an agent request.
AgentRaised == [raises |-> TRUE, status_code |-> 0, payload |-> InvalidPayload]

AgentResponse(status_code, payload) ==
    [raises |-> FALSE, status_code |-> status_code, payload |-> payload]

\* response.raise_for_status()
RaiseForStatus(response) == response.status_code >= 400 /\ response.status_code < 600

DirectUrlKeys == <<k_csvUrl, k_jsonUrl, k_resultsCsvUrl, k_resultsJsonUrl>>

CandidateDefaults == <<n_result, n_results, n_output, n_data, n_dataset>>

RECURSIVE DirectUrls(_, _)
\* for key in (...): if isinstance(data_section.get(key), str) and
\* data_section[key].startswith('http'): direct_urls.append((data_section[key], dtype))
DirectUrls(data_section, keys) ==
    IF keys = <<>> THEN <<>>
    ELSE (IF /\ RowGet(data_section, Head(keys)) # NoneVal
             /\ StartsWith(RowGet(data_section, Head(keys)), s_http)
          THEN <<[url   |-> RowGet(data_section, Head(keys)),
                  dtype |-> IF Contains(Lower(Head(keys)), s_csv) THEN s_csv ELSE s_json]>>
          ELSE <<>>)
         \o DirectUrls(data_section, Tail(keys))

\* data_section.get('s3Folder', ''): the value, '' when the key is missing.
GetOrEmpty(row, key) == IF RowHas(row, key) THEN RowGet(row, key) ELSE <<>>

\* if not s3_folder or not org_s3_folder
MissingS3(data_section) ==
    \/ ~Truthy(GetOrEmpty(data_section, k_s3Folder))
    \/ ~Truthy(GetOrEmpty(data_section, k_orgS3Folder))

\* candidate_names: the csvName of the agent's arguments when the argument text
\* decodes to an object that has one, then the defaults.  argument.kind is "absent"
\* (no argument text), "invalid" (json.loads or .get raises) or "object".
CandidateNames(argument) ==
    (IF argument.kind = "object" /\ FirstTruthy(argument.obj, <<k_csvName, k_csvFilename>>) # <<>>
     THEN <<FirstTruthy(argument.obj, <<k_csvName, k_csvFilename>>)>>
     ELSE <<>>) \o CandidateDefaults

S3Url(org_s3_folder, s3_folder, base, ext) ==
    s_s3_base \o org_s3_folder \o <<"/">> \o s3_folder \o <<"/">> \o base \o ext

RECURSIVE S3Locations(_, _, _)
\* for base in candidate_names: the csv_url, then the json_url
S3Locations(org_s3_folder, s3_folder, candidate_names) ==
    IF candidate_names = <<>> THEN <<>>
    ELSE <<[url |-> S3Url(org_s3_folder, s3_folder, Head(candidate_names), s_dot_csv),
            dtype |-> s_csv],
           [url |-> S3Url(org_s3_folder, s3_folder, Head(candidate_names), s_dot_json),
            dtype |-> s_json]>>
         \o S3Locations(org_s3_folder, s3_folder, Tail(candidate_names))

\* The locations of the result file in the order the code requests them.
Locations(data_section, argument) ==
    DirectUrls(data_section, DirectUrlKeys)
        \o (IF MissingS3(data_section) THEN <<>>
            ELSE S3Locations(RowGet(data_section, k_orgS3Folder),
                             RowGet(data_section, k_s3Folder), CandidateNames(argument)))

\* if file_resp.status_code == 200 and file_resp.text.strip()
Downloaded(response) == ~response.raises /\ response.status_code = 200 /\ ~response.blank

\* Requests every location, whatever the earlier ones answered.
RequestsMade_all(locations, files) == Len(locations)

\* The number of download requests made: up to the first location that is
\* downloaded, all of them when none is.  files[n] is the answer to the n-th download.
RequestsMade(locations, files) ==
    IF \E n \in DOMAIN locations : Downloaded(files[n])
    THEN CHOOSE n \in DOMAIN locations :
             Downloaded(files[n]) /\ \A m \in 1..(n - 1) : ~Downloaded(files[m])
    ELSE Len(locations)

\* if phantom_name in [...]: return self._parse_twitter_data(data, phantom_name) ...
_parse_data_by_type(rows, phantom_name, now, tz, window_days) ==
    IF phantom_name \in {p_twitter_hashtag, st_twitter_search, p_twitter_extractor}
    THEN _parse_twitter_data(rows, phantom_name, now, tz, window_days)
    ELSE IF phantom_name = p_linkedin_posts
    THEN _parse_linkedin_data(rows, now, tz, window_days)
    ELSE <<>>

\* The downloads of _get_phantom_results, from the number of requests made: the
\* requests in order and the entries returned.
DownloadResults(locations, files, made, phantom_name, host) ==
    [requests |-> [n \in 1..made |-> Request(locations[n].url, "none")],
     raised   |-> FALSE,
     entries  |-> IF made > 0 /\ Downloaded(files[made])
                  THEN _parse_data_by_type(files[made].rows, phantom_name, host.now,
                                           host.tz, host.window_days)
                  ELSE <<>>]

\* data_section = agent_payload.get('data') if ... isinstance(agent_payload.get('data'),
\* dict) else agent_payload
DataSection(agent_payload) ==
    IF agent_payload.nested THEN agent_payload.data ELSE agent_payload.root

\* Lines 78-149: what follows a successful agent request.
AfterAgent(agent_payload, files, phantom_name, host) ==
    DownloadResults(Locations(DataSection(agent_payload), agent_payload.argument), files,
                    RequestsMade(Locations(DataSection(agent_payload), agent_payload.argument),
                                 files),
                    phantom_name, host)

\* Retries the agent request on every error status.
AgentRequests_retryAnyError(first) ==
    IF ~first.raises /\ first.status_code >= 400
    THEN <<Request(AgentsFetchUrl, "header"), Request(AgentsFetchUrl, "query")>>
    ELSE <<Request(AgentsFetchUrl, "header")>>

\* The requests made for the agent: the first with the key in a header and, when it
\* answers 400, a second with the key as a query parameter.
AgentRequests(first) ==
    IF ~first.raises /\ first.status_code = 400
    THEN <<Request(AgentsFetchUrl, "header"), Request(AgentsFetchUrl, "query")>>
    ELSE <<Request(AgentsFetchUrl, "header")>>

\* The response line 76 looks at: the answer to the last agent request.
LastAgentResponse(agent, requests) == agent[Len(requests)]

PhantomResultsOf(requests, last, files, phantom_name, host) ==
    IF last.raises \/ RaiseForStatus(last) \/ last.payload.invalid
    THEN [requests |-> requests, raised |-> TRUE, entries |-> <<>>]
    ELSE [requests |-> requests
                         \o AfterAgent(last.payload, files, phantom_name, host).requests,
          raised   |-> FALSE,
          entries  |-> AfterAgent(last.payload, files, phantom_name, host).entries]

\* net.agent[n] is the answer to the n-th agent request, net.files[n] the answer to
\* the n-th download; the result holds the requests made, in order, whether the call
\* raised, and the entries returned.
_get_phantom_results(phantom_name, net, host) ==
    PhantomResultsOf(AgentRequests(net.agent[1]),
                     LastAgentResponse(net.agent, AgentRequests(net.agent[1])),
                     net.files, phantom_name, host)

(***************************************************************************)
(* _get_phantom_results against a scripted network: the agent answers, the *)
(* agent's payload, and the answers to the downloads.                      *)
(***************************************************************************)
MaxPattern == 2

v_csv_url == <<"h","t","t","p","s",":","/","/","c","d","n",".","e","x","a","m","p","l","e",".","c","o","m","/","r","e","s","u","l","t",".","c","s","v">>
v_json_url == <<"h","t","t","p","s",":","/","/","c","d","n",".","e","x","a","m","p","l","e",".","c","o","m","/","r","e","s","u","l","t",".","j","s","o","n">>
v_ftp_url == <<"f","t","p",":","/","/","c","d","n",".","e","x","a","m","p","l","e",".","c","o","m","/","r","e","s","u","l","t",".","c","s","v">>
v_s3_folder == <<"a","g","e","n","t","F","o","l","d","e","r">>
v_org_folder == <<"o","r","g","F","o","l","d","e","r">>
v_csv_name == <<"l","e","a","v","e">>

\* The most locations a payload can give: every direct URL, and two files for the
\* csvName and for each default name.
MaxLocations == Len(DirectUrlKeys) + 2 * (Len(CandidateDefaults) + 1)

NoArgument == [kind |-> "absent", obj |-> <<>>]

InvalidArgument == [kind |-> "invalid", obj |-> <<>>]

ArgumentObject(obj) == [kind |-> "object", obj |-> obj]

S3Fields == <<<<k_s3Folder, v_s3_folder>>, <<k_orgS3Folder, v_org_folder>>>>

FetchPayloads ==
    { Payload(FALSE, <<<<k_csvUrl, v_csv_url>>, <<k_jsonUrl, v_json_url>>>> \o S3Fields, <<>>,
              ArgumentObject(<<<<k_csvName, v_csv_name>>>>)),
      Payload(FALSE, S3Fields, <<>>, NoArgument),
      Payload(FALSE, <<<<k_resultsCsvUrl, NoneVal>>>> \o S3Fields, <<>>, InvalidArgument),
      Payload(FALSE, <<<<k_resultsJsonUrl, v_json_url>>, <<k_resultsCsvUrl, v_csv_url>>,
                       <<k_s3Folder, v_s3_folder>>>>, <<>>, NoArgument),
      Payload(TRUE, <<<<k_csvUrl, v_csv_url>>>>, S3Fields,
              ArgumentObject(<<<<k_csvName, <<>>>>, <<k_csvFilename, n_result>>>>)),
      Payload(FALSE, <<<<k_csvUrl, v_ftp_url>>, <<k_s3Folder, v_s3_folder>>,
                       <<k_orgS3Folder, <<>>>>>>, <<>>, NoArgument) }

FetchRow ==
    <<<<k_Tweet_Date, v_td_dateonly>>, <<k_epoch, v_ts_epoch>>, <<k_text, t_leave>>,
      <<k_author, a_ann>>, <<k_url, v_tw_status>>>>

\* The decoded result files: one post, and a file with no row in it.
ResultFiles == {<<FetchRow>>, <<>>}

\* The ways a download fails: requests.get raises, the body is blank, the status is
\* not 200.
Failures == {Raised, Response(200, TRUE, <<>>), Response(404, FALSE, <<>>)}

FailurePatterns == SeqsUpTo(Failures, MaxPattern) \ {<<>>}

\* The answers to the downloads: failures, in the order of the pattern and round
\* again, before the okAt-th download, the file from then on; failures only when
\* okAt is 0.
Files(okAt, pattern, file) ==
    [n \in 1..MaxLocations |->
        IF okAt # 0 /\ n >= okAt THEN Response(200, FALSE, file)
        ELSE pattern[((n - 1) % Len(pattern)) + 1]]

AgentAnswers ==
    {AgentRaised, AgentResponse(200, InvalidPayload)}
        \cup {AgentResponse(s, Payload(FALSE, <<<<k_csvUrl, v_csv_url>>>>, <<>>, NoArgument)) :
                  s \in {200, 400, 401, 500}}

FetchHost == [now |-> NowUtc, tz |-> 0, window_days |-> 1]

FetchInputs ==
    {[phantom_name |-> st_twitter_search,
      net |-> [agent |-> <<AgentResponse(200, p), AgentRaised>>,
               files |-> Files(okAt, pattern, <<FetchRow>>)]] :
         p \in FetchPayloads, okAt \in 0..MaxLocations, pattern \in FailurePatterns}
    \cup
    {[phantom_name |-> name,
      net |-> [agent |-> <<first, second>>, files |-> Files(okAt, <<Raised>>, file)]] :
         name \in {p_twitter_hashtag, p_linkedin_posts}, first \in AgentAnswers,
         second \in AgentAnswers, okAt \in {0, 1}, file \in ResultFiles}

InitFetch ==
    /\ fn = "_get_phantom_results"
    /\ arg \in FetchInputs
    /\ ret = <<>>
    /\ NothingRuns

GetPhantomResults ==
    /\ fn = "_get_phantom_results"
    /\ ret = <<>>
    /\ ret' = <<_get_phantom_results(arg.phantom_name, arg.net, FetchHost)>>
    /\ UNCHANGED <<fn, arg, pipeVars, schedVars>>

SpecFetch == InitFetch /\ [][GetPhantomResults]_vars

\* The requests of a call that went to the agent endpoint, and the downloads.
ToAgent(requests) == SelectSeq(requests, LAMBDA q : q.url = AgentsFetchUrl)

Downloads(requests) == SelectSeq(requests, LAMBDA q : q.url # AgentsFetchUrl)

\* The payload the call worked with: that of the last agent answer.
PayloadUsed(net, requests) == net.agent[Len(ToAgent(requests))].payload

\* The direct URLs of a section, in the fixed order of the four keys.
DirectInOrder(section) ==
    [i \in 1..Len(SelectSeq(DirectUrlKeys,
                            LAMBDA k : /\ RowGet(section, k) # NoneVal
                                       /\ StartsWith(RowGet(section, k), s_http))) |->
        RowGet(section, SelectSeq(DirectUrlKeys,
                                  LAMBDA k : /\ RowGet(section, k) # NoneVal
                                             /\ StartsWith(RowGet(section, k), s_http))[i])]

\* The base names: the csvName (or csvFilename) of the arguments first, then the
\* five defaults.
BaseNames(argument) ==
    (IF argument.kind = "object" /\ Truthy(RowGet(argument.obj, k_csvName))
     THEN <<RowGet(argument.obj, k_csvName)>>
     ELSE IF argument.kind = "object" /\ Truthy(RowGet(argument.obj, k_csvFilename))
     THEN <<RowGet(argument.obj, k_csvFilename)>>
     ELSE <<>>) \o <<n_result, n_results, n_output, n_data, n_dataset>>

\* For each base name the .csv file and then the .json file of the S3 folder; none
\* when a folder field is missing or empty.
S3InOrder(section, bases) ==
    IF Truthy(RowGet(section, k_s3Folder)) /\ Truthy(RowGet(section, k_orgS3Folder))
    THEN [i \in 1..(2 * Len(bases)) |->
             s_s3_base \o RowGet(section, k_orgS3Folder) \o <<"/">>
                 \o RowGet(section, k_s3Folder) \o <<"/">> \o bases[(i + 1) \div 2]
                 \o (IF i % 2 = 1 THEN s_dot_csv ELSE s_dot_json)]
    ELSE <<>>

LocationsInOrder(payload) ==
    DirectInOrder(DataSection(payload))
        \o S3InOrder(DataSection(payload), BaseNames(payload.argument))

\* The downloads of result res were made at the start of the list urls, in order;
\* each but the last failed; when the last answered 200 with a body the result is
\* its parsed content, and otherwise every location was requested and the result is
\* empty.
FirstAnswering(res, urls, files, phantom_name) ==
    /\ Len(Downloads(res.requests)) <= Len(urls)
    /\ \A n \in DOMAIN Downloads(res.requests) :
           /\ Downloads(res.requests)[n] = Request(urls[n], "none")
           /\ n < Len(Downloads(res.requests)) => ~Downloaded(files[n])
    /\ IF Downloads(res.requests) # <<>> /\ Downloaded(files[Len(Downloads(res.requests))])
       THEN res.entries = _parse_data_by_type(files[Len(Downloads(res.requests))].rows,
                                              phantom_name, FetchHost.now, FetchHost.tz,
                                              FetchHost.window_days)
       ELSE Len(Downloads(res.requests)) = Len(urls) /\ res.entries = <<>>

\* C21: _get_phantom_results requests the result locations in one fixed order (the
\* direct URLs csvUrl, jsonUrl, resultsCsvUrl, resultsJsonUrl, then, when both S3
\* folder fields are present, for each base name - the csvName of the arguments
\* first, then result, results, output, data, dataset - the .csv and then the .json
\* file), returns the parsed content of the first location that answers 200 with a
\* non-blank body and requests no later one; a failed download moves on to the
\* next location, and when none succeeds the result is the empty list.
C21_FirstAnsweringLocation ==
    \A r \in DOMAIN ret :
        ~ret[r].raised =>
            FirstAnswering(ret[r], LocationsInOrder(PayloadUsed(arg.net, ret[r].requests)),
                           arg.net.files, arg.phantom_name)

\* The first two locations failed, one by an exception and one with a blank body,
\* the third answered: three downloads were made and its post was returned.
C21_Witness ==
    /\ ret # <<>>
    /\ ~ret[1].raised
    /\ Len(Downloads(ret[1].requests)) = 3
    /\ arg.net.files[1] = Raised
    /\ arg.net.files[2] = Response(200, TRUE, <<>>)
    /\ Downloaded(arg.net.files[3])
    /\ Len(LocationsInOrder(PayloadUsed(arg.net, ret[1].requests))) > 3
    /\ Len(ret[1].entries) = 1

\* The status of the last agent answer is an HTTP error.
IsHttpError(response) ==
    ~response.raises /\ response.status_code >= 400 /\ response.status_code <= 599

\* C22: the agent request is retried at most once: the first request carries the
\* API key in a header; when it answers 400 exactly one further request is made,
\* with the API key as a query parameter; after any other status, or an exception,
\* no second request is made; when the last answer is an HTTP error the call
\* raises, with no download made and no entry returned.
C22_OneRetryOn400 ==
    \A r \in DOMAIN ret :
        /\ ToAgent(ret[r].requests)[1] = Request(AgentsFetchUrl, "header")
        /\ IF ~arg.net.agent[1].raises /\ arg.net.agent[1].status_code = 400
           THEN /\ Len(ToAgent(ret[r].requests)) = 2
                /\ ToAgent(ret[r].requests)[2] = Request(AgentsFetchUrl, "query")
           ELSE Len(ToAgent(ret[r].requests)) = 1
        /\ IsHttpError(arg.net.agent[Len(ToAgent(ret[r].requests))])
               => /\ ret[r].raised
                  /\ ret[r].entries = <<>>
                  /\ Downloads(ret[r].requests) = <<>>

\* The first agent request answered 400 and the second 200: two agent requests were
\* made, the second with the key as a query parameter, and the posts of the result
\* file were returned.
C22_Witness ==
    /\ ret # <<>>
    /\ arg.net.agent[1].status_code = 400
    /\ arg.net.agent[2].status_code = 200
    /\ Len(ToAgent(ret[1].requests)) = 2
    /\ ret[1].requests[2].auth = "query"
    /\ ~ret[1].raised
    /\ ret[1].entries # <<>>

(***************************************************************************)
(* RSSParser.collect_feeds and PhantomBusterClient.collect_all_data: one   *)
(* source after the other, each inside its own try.                        *)
(***************************************************************************)
feed_url_1 == <<"h","t","t","p","s",":","/","/","w","w","w",".","g","o","o","g","l","e",".","c","o","m","/","a","l","e","r","t","s","/","f","e","e","d","s","/","0","6","6","0","1","8","6","3","3","9","5","6","9","4","6","6","9","2","5","1","/","9","9","9","5","6","5","4","7","9","8","4","7","2","0","0","5","3","5","2">>
feed_url_2 == <<"h","t","t","p","s",":","/","/","w","w","w",".","g","o","o","g","l","e",".","c","o","m","/","a","l","e","r","t","s","/","f","e","e","d","s","/","0","6","6","0","1","8","6","3","3","9","5","6","9","4","6","6","9","2","5","1","/","1","6","0","0","4","2","5","9","3","3","3","9","4","9","2","8","0","0","6","8">>
feed_url_3 == <<"h","t","t","p","s",":","/","/","w","w","w",".","g","o","o","g","l","e",".","c","o","m","/","a","l","e","r","t","s","/","f","e","e","d","s","/","0","6","6","0","1","8","6","3","3","9","5","6","9","4","6","6","9","2","5","1","/","3","6","8","0","3","8","6","2","3","4","2","9","0","5","6","4","6","3","7">>
feed_url_4 == <<"h","t","t","p","s",":","/","/","w","w","w",".","g","o","o","g","l","e",".","c","o","m","/","a","l","e","r","t","s","/","f","e","e","d","s","/","0","6","6","0","1","8","6","3","3","9","5","6","9","4","6","6","9","2","5","1","/","1","8","1","0","6","9","5","7","6","5","2","2","1","1","2","3","5","1","5","7">>
feed_url_5 == <<"h","t","t","p","s",":","/","/","w","w","w",".","g","o","o","g","l","e",".","c","o","m","/","a","l","e","r","t","s","/","f","e","e","d","s","/","0","6","6","0","1","8","6","3","3","9","5","6","9","4","6","6","9","2","5","1","/","1","8","1","0","6","9","5","7","6","5","2","2","1","1","2","3","5","1","5","7","h","t","t","p","s",":","/","/","w","w","w",".","g","o","o","g","l","e",".","c","o","m","/","a","l","e","r","t","s","/","f","e","e","d","s","/","0","6","6","0","1","8","6","3","3","9","5","6","9","4","6","6","9","2","5","1","/","3","3","2","6","3","3","7","1","2","0","0","7","7","9","0","5","9","2","5","h","t","t","p","s",":","/","/","w","w","w",".","g","o","o","g","l","e",".","c","o","m","/","a","l","e","r","t","s","/","f","e","e","d","s","/","0","6","6","0","1","8","6","3","3","9","5","6","9","4","6","6","9","2","5","1","/","8","1","6","7","6","2","0","2","6","7","0","9","7","6","2","8","3","0","4","h","t","t","p","s",":","/","/","w","w","w",".","g","o","o","g","l","e",".","c","o","m","/","a","l","e","r","t","s","/","f","e","e","d","s","/","0","6","6","0","1","8","6","3","3","9","5","6","9","4","6","6","9","2","5","1","/","6","1","5","9","0","5","0","9","1","4","8","1","4","0","7","7","0","1","5">>
v_phantom_id == <<"4","5","5","5","1","6","6","2","1","7">>

\* self.rss_feeds: the list as Python reads it.  The last four literals have no
\* comma between them, so they are one element, feed_url_5.
rss_feeds == <<feed_url_1, feed_url_2, feed_url_3, feed_url_4, feed_url_5>>

\* self.phantoms, in the order of the dict.
phantom_names == <<p_twitter_hashtag, st_twitter_search, p_twitter_extractor, p_linkedin_posts>>

\* What a method has done so far: the sources it called, each with what the call
\* gave, the entries collected, and whether it raised.
Collected(visited, entries, raised) ==
    [visited |-> visited, entries |-> entries, raised |-> raised]

\* One source whose exception is not caught: the loop ends there.
ThenRest_propagates(first, rest) ==
    IF first.visited # <<>> /\ first.visited[1].raised
    THEN Collected(first.visited, first.entries, TRUE)
    ELSE Collected(first.visited \o rest.visited, first.entries \o rest.entries, rest.raised)

\* One source and then the rest of the loop.
ThenRest(first, rest) ==
    Collected(first.visited \o rest.visited, first.entries \o rest.entries, rest.raised)

\* try: entries = self._parse_feed(feed_url); all_entries.extend(entries)
\* except Exception: ...  parsed is what feedparser.parse(feed_url) gave.
CollectFeed(feed_url, parsed, now, tz) ==
    Collected(<<[source |-> feed_url, raised |-> parsed.raises]>>,
              IF parsed.raises THEN <<>> ELSE _parse_feed(parsed.entries, now, tz),
              FALSE)

RECURSIVE CollectFeedsFrom(_, _, _, _)
\* for feed_url in self.rss_feeds, from the i-th on
CollectFeedsFrom(i, parsed, now, tz) ==
    IF i > Len(rss_feeds) THEN Collected(<<>>, <<>>, FALSE)
    ELSE ThenRest(CollectFeed(rss_feeds[i], parsed[i], now, tz),
                  CollectFeedsFrom(i + 1, parsed, now, tz))

\* parsed[i] is what feedparser.parse gives for the i-th feed.
collect_feeds(parsed, now, tz) == CollectFeedsFrom(1, parsed, now, tz)

\* try: data = self._get_phantom_results(phantom_id, phantom_name); all_data.extend(data)
\* except Exception: ...  result is what _get_phantom_results gave.
CollectPhantomOf(phantom_name, result) ==
    Collected(<<[source |-> phantom_name, raised |-> result.raised,
                 requests |-> result.requests]>>,
              IF result.raised THEN <<>> ELSE result.entries,
              FALSE)

\* if phantom_id: ...
CollectPhantom(phantom_name, phantom_id, net, host) ==
    IF Truthy(phantom_id)
    THEN CollectPhantomOf(phantom_name, _get_phantom_results(phantom_name, net, host))
    ELSE Collected(<<>>, <<>>, FALSE)

RECURSIVE CollectPhantomsFrom(_, _, _, _)
\* for phantom_name, phantom_id in self.phantoms.items(), from the i-th on
CollectPhantomsFrom(i, phantom_ids, nets, host) ==
    IF i > Len(phantom_names) THEN Collected(<<>>, <<>>, FALSE)
    ELSE ThenRest(CollectPhantom(phantom_names[i], phantom_ids[i], nets[i], host),
                  CollectPhantomsFrom(i + 1, phantom_ids, nets, host))

\* phantom_ids[i] is the container id of the i-th phantom (None when its variable is
\* not set), nets[i] the answers the network gives to its requests.
collect_all_data(phantom_ids, nets, host) == CollectPhantomsFrom(1, phantom_ids, nets, host)

(***************************************************************************)
(* The two collectors over feeds that parse, are empty or raise, and over  *)
(* phantoms that are unset, fail or answer.                                *)
(***************************************************************************)
FeedKinds == {"raises", "recent", "empty"}

\* What feedparser.parse gives for the i-th feed: it raises, or a feed with one entry
\* published i hours ago, or a feed without entries.
ParsedFeed(i, kind) ==
    [raises  |-> kind = "raises",
     entries |-> IF kind = "recent" THEN <<FeedEntry(MinusHours(NowUtc, i))>> ELSE <<>>]

PhantomKinds == {"unset", "blank", "http_error", "posts", "no_file"}

\* PB_..._ID: not set, set to the empty text, or a container id.
PhantomId(kind) ==
    IF kind = "unset" THEN NoneVal ELSE IF kind = "blank" THEN <<>> ELSE v_phantom_id

\* The network of a phantom: the agent answers 500; or it answers with a direct URL
\* that gives a file with one post; or it answers with no location that gives a file.
PhantomNet(kind) ==
    IF kind = "http_error"
    THEN [agent |-> <<AgentResponse(500, InvalidPayload), AgentRaised>>,
          files |-> Files(0, <<Raised>>, <<>>)]
    ELSE IF kind = "no_file"
    THEN [agent |-> <<AgentResponse(200, Payload(FALSE, S3Fields, <<>>, NoArgument)),
                      AgentRaised>>,
          files |-> Files(0, <<Response(404, FALSE, <<>>)>>, <<>>)]
    ELSE [agent |-> <<AgentResponse(200, Payload(FALSE, <<<<k_csvUrl, v_csv_url>>>>, <<>>,
                                                 NoArgument)),
                      AgentRaised>>,
          files |-> Files(1, <<Raised>>, <<FetchRow>>)]

CollectInputs ==
    {[method |-> "collect_feeds",
      parsed |-> [i \in DOMAIN rss_feeds |-> ParsedFeed(i, kinds[i])],
      kinds  |-> kinds] : kinds \in [DOMAIN rss_feeds -> FeedKinds]}
    \cup
    {[method      |-> "collect_all_data",
      phantom_ids |-> [i \in DOMAIN phantom_names |-> PhantomId(kinds[i])],
      nets        |-> [i \in DOMAIN phantom_names |-> PhantomNet(kinds[i])],
      kinds       |-> kinds] : kinds \in [DOMAIN phantom_names -> PhantomKinds]}

InitCollect ==
    /\ fn = "collect"
    /\ arg \in CollectInputs
    /\ ret = <<>>
    /\ NothingRuns

CollectFeeds ==
    /\ fn = "collect"
    /\ arg.method = "collect_feeds"
    /\ ret = <<>>
    /\ ret' = <<collect_feeds(arg.parsed, FetchHost.now, FetchHost.tz)>>
    /\ UNCHANGED <<fn, arg, pipeVars, schedVars>>

CollectAllData ==
    /\ fn = "collect"
    /\ arg.method = "collect_all_data"
    /\ ret = <<>>
    /\ ret' = <<collect_all_data(arg.phantom_ids, arg.nets, FetchHost)>>
    /\ UNCHANGED <<fn, arg, pipeVars, schedVars>>

SpecCollect == InitCollect /\ [][CollectFeeds \/ CollectAllData]_vars

RECURSIVE Flatten(_)
\* The sequences of a sequence, one after the other.
Flatten(seqs) == IF seqs = <<>> THEN <<>> ELSE Head(seqs) \o Flatten(Tail(seqs))

\* The sources a collector called, in the order of the calls.
SourcesOf(visited) == [i \in DOMAIN visited |-> visited[i].source]

\* The entries of the i-th feed, none when parsing it raises.
FeedGives(i) ==
    IF arg.parsed[i].raises THEN <<>>
    ELSE _parse_feed(arg.parsed[i].entries, FetchHost.now, FetchHost.tz)

\* The entries of the i-th phantom, none when it has no container id or fetching it
\* raises.
PhantomGives(i) ==
    IF arg.kinds[i] \in {"unset", "blank"}
         \/ _get_phantom_results(phantom_names[i], arg.nets[i], FetchHost).raised
    THEN <<>>
    ELSE _get_phantom_results(phantom_names[i], arg.nets[i], FetchHost).entries

\* C23: a source that raises does not stop the collector: collect_feeds calls every
\* feed of the list and collect_all_data every phantom that has a container id, in
\* the order of the configuration, whichever of them raise; a phantom without a
\* container id is not called and no request is made for it; the result is the
\* entries of the sources that did not raise, one source after the other in that
\* order; neither method raises.
C23_FailuresIsolated ==
    \A r \in DOMAIN ret :
        /\ ~ret[r].raised
        /\ arg.method = "collect_feeds" =>
               /\ SourcesOf(ret[r].visited) = rss_feeds
               /\ ret[r].entries = Flatten([i \in DOMAIN rss_feeds |-> FeedGives(i)])
        /\ arg.method = "collect_all_data" =>
               /\ SourcesOf(ret[r].visited)
                      = SelectSeq(phantom_names,
                                  LAMBDA name : \E i \in DOMAIN phantom_names :
                                      /\ phantom_names[i] = name
                                      /\ arg.kinds[i] \notin {"unset", "blank"})
               /\ \A v \in DOMAIN ret[r].visited : ret[r].visited[v].requests # <<>>
               /\ ret[r].entries = Flatten([i \in DOMAIN phantom_names |-> PhantomGives(i)])

\* The second phantom has no container id and the third answers with an HTTP error:
\* the posts of the first and of the fourth were returned, in that order, and only
\* the first, third and fourth were called.
C23_Witness ==
    /\ ret # <<>>
    /\ arg.method = "collect_all_data"
    /\ arg.kinds = <<"posts", "unset", "http_error", "posts">>
    /\ Len(ret[1].visited) = 3
    /\ ret[1].visited[2].raised
    /\ Len(ret[1].entries) = 2
    /\ ret[1].entries[1].source = src_Twitter_hashtag
    /\ ret[1].entries[2].source = src_LinkedIn

====
